---- MODULE Spec2Model ----
(***************************************************************************)
(* Model of the config-template loader of singbox-launcher                 *)
(* (src/unnamed/part_001, package ui): extractAllSelectableBlocks,         *)
(* parseSelectableRules, extractRuleMetadata, normalizeRuleJSON,           *)
(* orderTemplateSections and loadTemplateData.                             *)
(*                                                                         *)
(* Text is a sequence of lexemes (strings).  A lexeme is either one        *)
(* character the code's regular expressions look at (",", "[", "]", a      *)
(* white-space character) or a run of characters they treat as a unit      *)
(* ("/**", "*/", "@SelectableRule", an object literal, a word).            *)
(***************************************************************************)
EXTENDS Integers, Sequences, FiniteSets, Bags, TLC

VARIABLES
    xSrc,        \* extractAllSelectableBlocks: the argument src
    xBlocks,     \* extractAllSelectableBlocks: the returned blocks
    xCleaned,    \* extractAllSelectableBlocks: the returned text
    xpc          \* "call" before the call, "done" after it

VARIABLES
    oDoc,        \* section ordering: the text of the template
    oSections,   \* the map json.Unmarshal filled (name -> raw value)
    oOrder,      \* the slice orderTemplateSections returned
    opc          \* "parse", "order", "done" or "error"

VARIABLES
    rBlocks,     \* parseSelectableRules: the argument blocks
    rRules,      \* parseSelectableRules: the returned rules
    rErr,        \* parseSelectableRules: the returned error ("" for nil)
    rErrBlock,   \* the block index the error message names (0 for nil)
    rpc          \* "call" before the call, "done" after it

VARIABLES
    tplFile,     \* loadTemplateData: the text of bin/config_template.json
    lpc,         \* per call: the statement loadTemplateData is at
    lv,          \* per call: the local variables of loadTemplateData
    lres,        \* per call: what loadTemplateData returned
    spc,         \* ExtractParcerConfig: "call" before the call, "done" after it
    sres         \* ExtractParcerConfig: what it returned

VARIABLES
    controller,  \* what the tab reads from core.AppController and the platform
    tab,         \* CoreDashboardTab: the flags and the state of its widgets
    goroutines,  \* the goroutines the tab has spawned that are still running
    uiQueue,     \* the functions handed to fyne.Do, not yet run by the UI thread
    netLog,      \* every network call so far: which call, made by which thread
    events       \* the clicks and timer ticks so far, by kind

VARIABLES
    mLines,      \* extractRuleMetadata: the lines of the argument block
    mResult,     \* extractRuleMetadata: the returned label, description, body
    mpc          \* "call" before the call, "done" after it

VARIABLES
    app,         \* App: currentTab, and the state of its AppTabs
    appRunning,  \* controller.RunningState.IsRunning()
    appQueue,    \* the functions handed to fyne.Do by UpdateCoreStatusFunc
    appEvents    \* the tab selections and status changes so far, by kind

xvars == <<xSrc, xBlocks, xCleaned, xpc>>

avars == <<app, appRunning, appQueue, appEvents>>

VARIABLES
    content,     \* the bytes handed to DecodeSubscriptionContent
    decodeRet,   \* what it returned: the bytes and the error
    decodePc     \* "idle", "call" or "done"

bvars == <<content, decodeRet, decodePc>>

mvars == <<mLines, mResult, mpc>>

\* The variables of the parts modelled after the dashboard tab.
nvars == <<mvars, avars, bvars>>

dvars == <<controller, tab, goroutines, uiQueue, netLog, events>>

lvars == <<tplFile, lpc, lv, lres, spc, sres>>

rvars == <<rBlocks, rRules, rErr, rErrBlock, rpc>>

ovars == <<oDoc, oSections, oOrder, opc>>

vars == <<xSrc, xBlocks, xCleaned, xpc, oDoc, oSections, oOrder, opc,
          rBlocks, rRules, rErr, rErrBlock, rpc, tplFile, lpc, lv, lres, spc, sres,
          controller, tab, goroutines, uiQueue, netLog, events,
          mLines, mResult, mpc, app, appRunning, appQueue, appEvents,
          content, decodeRet, decodePc>>

----------------------------------------------------------------------------
(* Bounds of the model *)

\* Longest array body (in segments) of a document given to the extractor.
MaxSegs == 5

\* Most top-level members of a template given to the section orderer.
MaxKeys == 3

\* Most blocks given to the rule-block parser.
MaxBlocks == 2

\* Most top-level members of a template given to loadTemplateData.
MaxMembers == 2

----------------------------------------------------------------------------
(* Text helpers: package strings and package regexp on lexeme sequences *)

Min(S) == CHOOSE x \in S : \A y \in S : x <= y

Max(S) == CHOOSE x \in S : \A y \in S : x >= y

\* \s of the regular expressions, and the white space strings.TrimSpace cuts.
IsSpace(c) == c \in {" ", "\t", "\n", "\r"}

\* The first index of a set of indices, and the last one (none when the set
\* is empty).
FirstIn(S, none) == IF S = {} THEN none ELSE Min(S)

LastIn(S, none) == IF S = {} THEN none ELSE Max(S)

\* First index >= i that holds no white space (Len(s)+1 when there is none).
SkipSpace(s, i) == FirstIn({j \in i..Len(s) : ~IsSpace(s[j])}, Len(s) + 1)

\* Last index <= i that holds no white space (0 when there is none).
SkipSpaceBack(s, i) == LastIn({j \in 1..i : ~IsSpace(s[j])}, 0)

\* strings.TrimSpace.
TrimSpace(s) ==
    LET a == SkipSpace(s, 1)
        b == SkipSpaceBack(s, Len(s))
    IN  IF a > b THEN <<>> ELSE SubSeq(s, a, b)

\* s without the spans matches[k].start .. matches[k].end-1, for matches in
\* ascending order that do not overlap; the text from index from on.
RECURSIVE CutSpans(_, _, _, _)
CutSpans(s, matches, k, from) ==
    IF k > Len(matches) THEN SubSeq(s, from, Len(s))
    ELSE SubSeq(s, from, matches[k].start - 1)
             \o CutSpans(s, matches, k + 1, matches[k].end)

\* regexp.ReplaceAllString(s, repl) for a pattern `first \s* second` of two
\* single characters: leftmost, non-overlapping matches, each replaced.
RECURSIVE ReplacePairFrom(_, _, _, _, _)
ReplacePairFrom(s, first, second, repl, from) ==
    LET i == FirstIn({j \in from..Len(s) :
                 /\ s[j] = first
                 /\ SkipSpace(s, j + 1) <= Len(s)
                 /\ s[SkipSpace(s, j + 1)] = second}, Len(s) + 1)
    IN  IF i > Len(s) THEN SubSeq(s, from, Len(s))
        ELSE SubSeq(s, from, i - 1) \o <<repl>>
                 \o ReplacePairFrom(s, first, second, repl, SkipSpace(s, i + 1) + 1)

\* Last index in i..j holding a line break (i-1 when there is none).
LastBreak(s, i, j) == LastIn({h \in i..j : s[h] = "\n"}, i - 1)

\* regexp `(?m)^\s*$\n?` replaced by "": at a line start, the white space up
\* to and including the last line break of the white-space run (the whole
\* run when it reaches the end of the text) is deleted.
BlankMatchAt(s, i) ==
    /\ i = 1 \/ s[i - 1] = "\n"
    /\ \/ SkipSpace(s, i) = Len(s) + 1
       \/ LastBreak(s, i, SkipSpace(s, i) - 1) >= i

RECURSIVE RemoveBlankLinesFrom(_, _)
RemoveBlankLinesFrom(s, from) ==
    LET i == FirstIn({j \in from..Len(s) : BlankMatchAt(s, j)}, Len(s) + 1)
    IN  IF i > Len(s) THEN SubSeq(s, from, Len(s))
        ELSE IF SkipSpace(s, i) = Len(s) + 1 THEN SubSeq(s, from, i - 1)
        ELSE SubSeq(s, from, i - 1)
                 \o RemoveBlankLinesFrom(s, LastBreak(s, i, SkipSpace(s, i) - 1) + 1)

\* First index >= i holding a comment closer (Len(s)+1 when there is none).
FirstCloseAfter(s, i) == FirstIn({j \in i..Len(s) : s[j] = "*/"}, Len(s) + 1)

----------------------------------------------------------------------------
(* JSON: the lexemes of a JSON text, encoding/json's Valid and Unmarshal,   *)
(* and the jsonc reducer.                                                  *)

\* The string literals of the model's documents, each with the string it
\* decodes to.
StringTable ==
    << <<"\"log\"", "log">>, <<"\"dns\"", "dns">>,
       <<"\"inbounds\"", "inbounds">>, <<"\"outbounds\"", "outbounds">>,
       <<"\"route\"", "route">>, <<"\"experimental\"", "experimental">>,
       <<"\"rule_set\"", "rule_set">>, <<"\"rules\"", "rules">>,
       <<"\"ntp\"", "ntp">>, <<"\"endpoints\"", "endpoints">>,
       <<"\"final\"", "final">>, <<"\"label\"", "label">>,
       <<"\"outbound\"", "outbound">>, <<"\"auto\"", "auto">>,
       <<"\"Auto\"", "Auto">>, <<"\"Own\"", "Own">>,
       <<"\"proxy-a\"", "proxy-a">>, <<"\"direct\"", "direct">>,
       <<"\"\"", "">>, <<"\"version\"", "version">>,
       <<"\"ParserConfig\"", "ParserConfig">> >>

StringLits == {StringTable[i][1] : i \in 1..Len(StringTable)}

\* The Go string a string literal decodes to.
StringWord(lit) ==
    StringTable[CHOOSE i \in 1..Len(StringTable) : StringTable[i][1] = lit][2]

NumberLits == {"0", "1", "7"}

\* A Go string as text: the empty string is the empty text.
WordText(w) == IF w = "" THEN <<>> ELSE <<w>>

ParseFail == [ok |-> FALSE, next |-> 0, val |-> [t |-> "none"]]

ParseOk(n, v) == [ok |-> TRUE, next |-> n, val |-> v]

\* encoding/json's grammar on lexemes: the value that starts at index i, the
\* index after it and what it decodes to.  An object keeps its members in
\* source order, with the raw text of each value.
RECURSIVE ParseValue(_, _)
RECURSIVE ParseElements(_, _, _)
RECURSIVE ParseMembers(_, _, _, _, _)
ParseValue(s, i) ==
    IF i > Len(s) THEN ParseFail
    ELSE IF s[i] = "[" THEN
        IF i + 1 <= Len(s) /\ s[i + 1] = "]"
        THEN ParseOk(i + 2, [t |-> "array", items |-> <<>>])
        ELSE ParseElements(s, i + 1, <<>>)
    ELSE IF s[i] = "{" THEN
        IF i + 1 <= Len(s) /\ s[i + 1] = "}"
        THEN ParseOk(i + 2, [t |-> "object", keys |-> <<>>, vals |-> <<>>, raws |-> <<>>])
        ELSE ParseMembers(s, i + 1, <<>>, <<>>, <<>>)
    ELSE IF s[i] \in StringLits THEN
        ParseOk(i + 1, [t |-> "string", word |-> StringWord(s[i])])
    ELSE IF s[i] \in NumberLits THEN ParseOk(i + 1, [t |-> "number", lit |-> s[i]])
    ELSE IF s[i] \in {"true", "false"} THEN ParseOk(i + 1, [t |-> "bool", lit |-> s[i]])
    ELSE IF s[i] = "null" THEN ParseOk(i + 1, [t |-> "null"])
    ELSE ParseFail

ParseElements(s, i, acc) ==
    LET v == ParseValue(s, i)
    IN  IF ~v.ok \/ v.next > Len(s) THEN ParseFail
        ELSE IF s[v.next] = "," THEN ParseElements(s, v.next + 1, Append(acc, v.val))
        ELSE IF s[v.next] = "]"
        THEN ParseOk(v.next + 1, [t |-> "array", items |-> Append(acc, v.val)])
        ELSE ParseFail

ParseMembers(s, i, keys, vals, raws) ==
    IF i + 1 > Len(s) \/ s[i] \notin StringLits \/ s[i + 1] # ":" THEN ParseFail
    ELSE LET v  == ParseValue(s, i + 2)
             ks == Append(keys, StringWord(s[i]))
         IN  IF ~v.ok \/ v.next > Len(s) THEN ParseFail
             ELSE LET vs == Append(vals, v.val)
                      rs == Append(raws, SubSeq(s, i + 2, v.next - 1))
                  IN  IF s[v.next] = "," THEN ParseMembers(s, v.next + 1, ks, vs, rs)
                      ELSE IF s[v.next] = "}"
                      THEN ParseOk(v.next + 1,
                               [t |-> "object", keys |-> ks, vals |-> vs, raws |-> rs])
                      ELSE ParseFail

\* The whole text is one JSON value.
ParseJSON(s) ==
    LET r == ParseValue(s, 1)
    IN  IF r.ok /\ r.next = Len(s) + 1 THEN r ELSE ParseFail

\* json.Valid
jsonValid(s) == ParseJSON(s).ok

\* A Go map filled in source order: a key given twice keeps its last value.
LastWins(keys, vals) ==
    [k \in {keys[i] : i \in 1..Len(keys)} |->
        vals[Max({i \in 1..Len(keys) : keys[i] = k})]]

NoMap == [k \in {} |-> <<>>]

\* json.Unmarshal(data, &m) for m map[string]json.RawMessage and valid data:
\* an object fills the map, null leaves it empty, anything else is an error.
UnmarshalRawMap(s) ==
    LET v == ParseJSON(s).val
    IN  IF v.t = "object" THEN [ok |-> TRUE, m |-> LastWins(v.keys, v.raws)]
        ELSE IF v.t = "null" THEN [ok |-> TRUE, m |-> NoMap]
        ELSE [ok |-> FALSE, m |-> NoMap]

\* json.Unmarshal(data, &m) for m map[string]interface{}.
UnmarshalMap(s) ==
    LET r == ParseJSON(s)
    IN  IF r.ok /\ r.val.t = "object"
        THEN [ok |-> TRUE, m |-> LastWins(r.val.keys, r.val.vals)]
        ELSE IF r.ok /\ r.val.t = "null" THEN [ok |-> TRUE, m |-> NoMap]
        ELSE [ok |-> FALSE, m |-> NoMap]

\* A decoded element as map[string]interface{}: an object, or null (a nil map).
IsMapValue(v) == v.t \in {"object", "null"}

ItemMap(v) == IF v.t = "object" THEN LastWins(v.keys, v.vals) ELSE NoMap

\* json.Unmarshal(data, &items) for items []map[string]interface{} and valid
\* data: an array of objects (or nulls); anything else is an error.
UnmarshalItems(s) ==
    LET v == ParseJSON(s).val
    IN  IF v.t = "array" /\ \A k \in 1..Len(v.items) : IsMapValue(v.items[k])
        THEN [ok |-> TRUE, items |-> [k \in 1..Len(v.items) |-> ItemMap(v.items[k])]]
        ELSE IF v.t = "null" THEN [ok |-> TRUE, items |-> <<>>]
        ELSE [ok |-> FALSE, items |-> <<>>]

\* The comment that opens at i ends after the first closer (at the end of the
\* text when there is none).
IsCommentOpen(c) == c \in {"/**", "/*"}

RECURSIVE StripComments(_, _)
StripComments(s, from) ==
    LET i == FirstIn({j \in from..Len(s) : IsCommentOpen(s[j])}, Len(s) + 1)
    IN  IF i > Len(s) THEN SubSeq(s, from, Len(s))
        ELSE SubSeq(s, from, i - 1) \o StripComments(s, FirstCloseAfter(s, i + 1) + 1)

StripSpace(s) == SelectSeq(s, LAMBDA c : ~IsSpace(c))

RECURSIVE StripTrailingCommas(_, _)
StripTrailingCommas(s, from) ==
    LET i == FirstIn({j \in from..(Len(s) - 1) :
                 s[j] = "," /\ s[j + 1] \in {"]", "}"}}, Len(s))
    IN  IF i > Len(s) - 1 THEN SubSeq(s, from, Len(s))
        ELSE SubSeq(s, from, i - 1) \o StripTrailingCommas(s, i + 1)

\* jsonc.ToJSON, the strict-JSON reducer: comments and white space are
\* stripped, and commas that trail before a closing bracket.
jsoncToJSON(s) == StripTrailingCommas(StripSpace(StripComments(s, 1)), 1)

----------------------------------------------------------------------------
(* extractAllSelectableBlocks *)

\* (?i)@selectablerule
IsSelectableMarker(c) == c \in {"@SelectableRule", "@selectablerule"}

\* `(.*?)\*/`: the lazy group ends at the first closer.
FirstClose(s, i) == FirstCloseAfter(s, i)

\* The part `/\*\*\s*@selectablerule\s*(.*?)\*/` of the pattern matches with
\* its opener at index q.
BlockAt(s, q) ==
    /\ q \in 1..Len(s)
    /\ s[q] = "/**"
    /\ LET m == SkipSpace(s, q + 1)
       IN  /\ m <= Len(s)
           /\ IsSelectableMarker(s[m])
           /\ FirstClose(s, m + 1) <= Len(s)

\* First index >= i at which a block opens (Len(s)+1 when there is none).
FirstBlock(s, i) == FirstIn({q \in i..Len(s) : BlockAt(s, q)}, Len(s) + 1)

\* The match of the whole pattern whose opener is at q, for a search that
\* starts at index from: start (first index), end (first index after it) and
\* group 2.  Group 1 reaches back over white space, one comma, white space;
\* group 3 forward over the same.
SelectableMatch(s, q, from) ==
    LET m  == SkipSpace(s, q + 1)
        b  == SkipSpace(s, m + 1)
        c  == FirstClose(s, m + 1)
        t  == SkipSpace(s, c + 1)
        e  == IF t <= Len(s) /\ s[t] = "," THEN SkipSpace(s, t + 1) ELSE t
        a  == SkipSpaceBack(s, q - 1)
        p0 == IF a >= 1 /\ s[a] = "," THEN SkipSpaceBack(s, a - 1) + 1 ELSE a + 1
        p  == IF p0 < from THEN from ELSE p0
    IN  [start |-> p, end |-> e, inner |-> SubSeq(s, b, c - 1)]

\* Mutant of FindAllSelectable: only the first match is found, as
\* FindStringSubmatch would.
FindFirstSelectable(s, from) ==
    LET q == FirstBlock(s, from)
    IN  IF q > Len(s) THEN <<>> ELSE <<SelectableMatch(s, q, from)>>

\* pattern.FindAllStringSubmatch(src, -1): the leftmost match, then the
\* leftmost match after its end, and so on.
RECURSIVE FindAllSelectable(_, _)
FindAllSelectable(s, from) ==
    LET q == FirstBlock(s, from)
    IN  IF q > Len(s) THEN <<>>
        ELSE LET mt == SelectableMatch(s, q, from)
             IN  <<mt>> \o FindAllSelectable(s, mt.end)

\* pattern.ReplaceAllString(src, "")
RemoveMatches(s, matches) == CutSpans(s, matches, 1, 1)

\* The four clean-ups applied after the blocks are removed.
CleanupSeparators(s) ==
    LET noBlank  == RemoveBlankLinesFrom(s, 1)
        noDouble == ReplacePairFrom(noBlank, ",", ",", ",", 1)
        noBefore == ReplacePairFrom(noDouble, ",", "]", "]", 1)
    IN  ReplacePairFrom(noBefore, "[", ",", "[", 1)

\* Mutant of extractAllSelectableBlocks: no early return, the clean-ups run
\* also when nothing matched.
extractAllSelectableBlocks_NoEarlyReturn(src) ==
    LET matches == FindAllSelectable(src, 1)
    IN  [blocks  |-> [k \in 1..Len(matches) |-> TrimSpace(matches[k].inner)],
         cleaned |-> CleanupSeparators(RemoveMatches(src, matches))]

extractAllSelectableBlocks(src) ==
    LET matches == FindAllSelectable(src, 1)
    IN  IF Len(matches) = 0
        THEN [blocks |-> <<>>, cleaned |-> src]
        ELSE [blocks  |-> [k \in 1..Len(matches) |-> TrimSpace(matches[k].inner)],
              cleaned |-> CleanupSeparators(RemoveMatches(src, matches))]

----------------------------------------------------------------------------
(* Documents given to the extractor: an array whose body is a sequence of  *)
(* segments.                                                               *)

Segment(k) ==
    CASE k = 1 -> <<"A">>
      [] k = 2 -> <<",">>
      [] k = 3 -> <<" ">>
      [] k = 4 -> <<"\n">>
      [] k = 5 -> <<"/**", " ", "@SelectableRule", "\n", "r1", ",", "\n", "*/">>
      [] k = 6 -> <<"/**", "@selectablerule", " ", "r2", "*/">>
      [] k = 7 -> <<"/**", " ", "note", " ", "*/">>

SegmentKinds == 1..7

BlockKinds == {5, 6}

RECURSIVE Concat(_)
Concat(segs) ==
    IF Len(segs) = 0 THEN <<>> ELSE Segment(Head(segs)) \o Concat(Tail(segs))

ArrayDoc(segs) == <<"[">> \o Concat(segs) \o <<"]">>

\* The array [A, <block>, B], written with a blank after each comma.
ElemBlockElemDocs ==
    {<<"[", "A", ",", " ">> \o Segment(k) \o <<",", " ", "B", "]">> : k \in BlockKinds}

----------------------------------------------------------------------------
(* orderTemplateSections *)

\* Mutant of defaultOrder: two names of the list swapped.
defaultOrder_Swapped ==
    <<"dns", "log", "inbounds", "outbounds", "route", "experimental", "rule_set", "rules">>

defaultOrder ==
    <<"log", "dns", "inbounds", "outbounds", "route", "experimental", "rule_set", "rules">>

InSeq(x, q) == \E i \in 1..Len(q) : q[i] = x

\* The orders in which `for key := range sections` may visit the keys: Go
\* leaves the iteration order of a map unspecified, and it differs from one
\* range statement to the next.
MapRanges(m) ==
    LET n == Cardinality(DOMAIN m)
    IN  {q \in [1..n -> DOMAIN m] : \A i, j \in 1..n : q[i] = q[j] => i = j}

\* Mutant of orderTemplateSections: the second loop does not consult seen.
orderTemplateSections_NoSeen(sections, range) ==
    SelectSeq(defaultOrder, LAMBDA key : key \in DOMAIN sections) \o range

\* orderTemplateSections, for a map whose range statement visits the keys in
\* the order range.
orderTemplateSections(sections, range) ==
    LET ordered == SelectSeq(defaultOrder, LAMBDA key : key \in DOMAIN sections)
        seen    == {ordered[i] : i \in 1..Len(ordered)}
    IN  ordered \o SelectSeq(range, LAMBDA key : key \notin seen)

----------------------------------------------------------------------------
(* parseSelectableRules, extractRuleMetadata, normalizeRuleJSON *)

\* strings.Split(block, "\n")
RECURSIVE SplitLines(_, _)
SplitLines(s, from) ==
    LET i == FirstIn({j \in from..Len(s) : s[j] = "\n"}, Len(s) + 1)
    IN  IF i > Len(s) THEN <<SubSeq(s, from, Len(s))>>
        ELSE <<SubSeq(s, from, i - 1)>> \o SplitLines(s, i + 1)

\* Mutant of HasDirective: only the @label directive is recognised.
HasDirective_LabelOnly(trimmed, directive) ==
    directive = "@label" /\ Len(trimmed) >= 1 /\ trimmed[1] = directive

\* strings.HasPrefix(trimmed, directive)
HasDirective(trimmed, directive) == Len(trimmed) >= 1 /\ trimmed[1] = directive

\* strings.TrimSpace(trimmed[len(directive):])
DirectiveValue(trimmed) == TrimSpace(SubSeq(trimmed, 2, Len(trimmed)))

\* The loop of extractRuleMetadata over the lines from index i on.
RECURSIVE ScanLines(_, _, _, _, _)
ScanLines(lines, i, label, description, builder) ==
    IF i > Len(lines)
    THEN [label |-> label, description |-> description, cleaned |-> TrimSpace(builder)]
    ELSE LET line    == lines[i]
             trimmed == TrimSpace(line)
         IN  IF HasDirective(trimmed, "@label")
             THEN ScanLines(lines, i + 1,
                            IF DirectiveValue(trimmed) # <<>>
                            THEN DirectiveValue(trimmed) ELSE label,
                            description, builder)
             ELSE IF HasDirective(trimmed, "@description")
             THEN ScanLines(lines, i + 1, label,
                            IF DirectiveValue(trimmed) # <<>>
                            THEN DirectiveValue(trimmed) ELSE description,
                            builder)
             ELSE ScanLines(lines, i + 1, label, description,
                            builder \o line \o <<"\n">>)

extractRuleMetadata(block) == ScanLines(SplitLines(block, 1), 1, <<>>, <<>>, <<>>)

\* strings.TrimRight(s, " \t\r\n,")
RECURSIVE TrimRightSeparators(_)
TrimRightSeparators(s) ==
    IF Len(s) > 0 /\ (IsSpace(s[Len(s)]) \/ s[Len(s)] = ",")
    THEN TrimRightSeparators(SubSeq(s, 1, Len(s) - 1))
    ELSE s

normalizeRuleJSON(body) ==
    LET trimmed == TrimSpace(body)
        cut     == TrimSpace(TrimRightSeparators(trimmed))
    IN  IF trimmed = <<>> THEN [ok |-> FALSE, json |-> <<>>]
        ELSE IF cut = <<>> THEN [ok |-> FALSE, json |-> <<>>]
        ELSE IF cut[1] = "[" THEN [ok |-> TRUE, json |-> cut]
        ELSE [ok |-> TRUE, json |-> <<"[">> \o cut \o <<"]">>]

\* fmt.Sprintf("%d", n) for n >= 0, as decimal digits.
Digit(d) == <<"0", "1", "2", "3", "4", "5", "6", "7", "8", "9">>[d + 1]

RECURSIVE Itoa(_)
Itoa(n) == IF n < 10 THEN <<Digit(n)>> ELSE Itoa(n \div 10) \o <<Digit(n % 10)>>

\* fmt.Sprintf("Rule %d", n)
SynthesizedLabel(n) == <<"Rule", " ">> \o Itoa(n)

\* v, ok := item[key]; s, ok := v.(string)
HasField(item, key) == key \in DOMAIN item

IsStringField(item, key) == HasField(item, key) /\ item[key].t = "string"

\* Mutant of ruleLabel: no label is synthesized.
ruleLabel_NoSynthesized(item, label, n) ==
    IF label = <<>> /\ IsStringField(item, "label")
    THEN WordText(item["label"].word) ELSE label

\* Mutant of ruleLabel: the record's own label field is read first.
ruleLabel_OwnFirst(item, label, n) ==
    IF IsStringField(item, "label") /\ item["label"].word # ""
    THEN WordText(item["label"].word)
    ELSE IF label # <<>> THEN label
    ELSE SynthesizedLabel(n)

\* Lines 220 and 228-245: the label of the rule made from item, in a block
\* whose directive label is label, when n-1 rules were made before it.
ruleLabel(item, label, n) ==
    LET own == IF label = <<>> /\ IsStringField(item, "label")
               THEN WordText(item["label"].word) ELSE label
    IN  IF own = <<>> THEN SynthesizedLabel(n) ELSE own

\* Mutant of ruleOf: HasOutbound is set for a string-typed outbound only.
ruleOf_StringOutboundOnly(item, label, description, n) ==
    [Label           |-> ruleLabel(item, label, n),
     Description     |-> description,
     Raw             |-> item,
     HasOutbound     |-> IsStringField(item, "outbound"),
     DefaultOutbound |-> IF IsStringField(item, "outbound")
                         THEN item["outbound"].word ELSE ""]

\* Lines 218-245: the rule made from one item.
ruleOf(item, label, description, n) ==
    [Label           |-> ruleLabel(item, label, n),
     Description     |-> description,
     Raw             |-> item,
     HasOutbound     |-> HasField(item, "outbound"),
     DefaultOutbound |-> IF IsStringField(item, "outbound")
                         THEN item["outbound"].word ELSE ""]

\* Mutant of appendRules: the number of a synthesized label counts the rules
\* of the current block only.
RECURSIVE appendRules_BlockLocal(_, _, _, _, _)
appendRules_BlockLocal(rules, items, k, label, description) ==
    IF k > Len(items) THEN rules
    ELSE appendRules_BlockLocal(Append(rules, ruleOf(items[k], label, description, k)),
                                items, k + 1, label, description)

\* Lines 217-248: the loop over the items of one block, appending to rules;
\* the number of a synthesized label is len(rules)+1.
RECURSIVE appendRules(_, _, _, _, _)
appendRules(rules, items, k, label, description) ==
    IF k > Len(items) THEN rules
    ELSE appendRules(Append(rules, ruleOf(items[k], label, description, Len(rules) + 1)),
                     items, k + 1, label, description)

RulesError(kind, i) == [rules |-> <<>>, err |-> kind, block |-> i]

\* Mutant of parseBlocksFrom: a block that fails is skipped and the rules of
\* the other blocks are returned.
RECURSIVE parseBlocksFrom_SkipBad(_, _, _)
parseBlocksFrom_SkipBad(blocks, i, rules) ==
    IF i > Len(blocks) THEN [rules |-> rules, err |-> "", block |-> 0]
    ELSE IF TrimSpace(blocks[i]) = <<>> THEN parseBlocksFrom_SkipBad(blocks, i + 1, rules)
    ELSE LET md == extractRuleMetadata(blocks[i])
             nz == normalizeRuleJSON(md.cleaned)
             jsonBytes == jsoncToJSON(nz.json)
             decoded   == UnmarshalItems(jsonBytes)
         IN  IF md.cleaned = <<>> \/ ~nz.ok \/ ~jsonValid(jsonBytes) \/ ~decoded.ok
             THEN parseBlocksFrom_SkipBad(blocks, i + 1, rules)
             ELSE parseBlocksFrom_SkipBad(blocks, i + 1,
                      appendRules(rules, decoded.items, 1, md.label, md.description))

\* Lines 183-249: the loop over the blocks from index i on.
RECURSIVE parseBlocksFrom(_, _, _)
parseBlocksFrom(blocks, i, rules) ==
    IF i > Len(blocks) THEN [rules |-> rules, err |-> "", block |-> 0]
    ELSE IF TrimSpace(blocks[i]) = <<>> THEN parseBlocksFrom(blocks, i + 1, rules)
    ELSE LET md == extractRuleMetadata(blocks[i])
             nz == normalizeRuleJSON(md.cleaned)
             jsonBytes == jsoncToJSON(nz.json)
             decoded   == UnmarshalItems(jsonBytes)
         IN  IF md.cleaned = <<>> THEN RulesError("no JSON content", i)
             ELSE IF ~nz.ok THEN RulesError("no JSON content after trimming", i)
             ELSE IF ~jsonValid(jsonBytes) THEN RulesError("invalid JSON", i)
             ELSE IF ~decoded.ok THEN RulesError("failed to parse", i)
             ELSE parseBlocksFrom(blocks, i + 1,
                      appendRules(rules, decoded.items, 1, md.label, md.description))

parseSelectableRules(blocks) ==
    IF Len(blocks) = 0 THEN [rules |-> <<>>, err |-> "", block |-> 0]
    ELSE parseBlocksFrom(blocks, 1, <<>>)

----------------------------------------------------------------------------
(* extractCommentBlock, extractDefaultFinal *)

\* `/\*\*\s*@` + marker + `\s*(.*?)\*/` matches with its opener at index q.
CommentBlockAt(s, q, marker) ==
    /\ q \in 1..Len(s)
    /\ s[q] = "/**"
    /\ LET m == SkipSpace(s, q + 1)
       IN  /\ m <= Len(s)
           /\ s[m] = marker
           /\ FirstCloseAfter(s, m + 1) <= Len(s)

FirstCommentBlock(s, i, marker) ==
    FirstIn({q \in i..Len(s) : CommentBlockAt(s, q, marker)}, Len(s) + 1)

\* The match whose opener is at q: the pattern has no groups around it.
CommentMatch(s, q) ==
    LET m == SkipSpace(s, q + 1)
        b == SkipSpace(s, m + 1)
        c == FirstCloseAfter(s, m + 1)
    IN  [start |-> q, end |-> c + 1, inner |-> SubSeq(s, b, c - 1)]

\* All matches of the pattern: what ReplaceAllString replaces.
RECURSIVE FindAllComment(_, _, _)
FindAllComment(s, from, marker) ==
    LET q == FirstCommentBlock(s, from, marker)
    IN  IF q > Len(s) THEN <<>>
        ELSE <<CommentMatch(s, q)>> \o FindAllComment(s, CommentMatch(s, q).end, marker)

extractCommentBlock(src, marker) ==
    LET matches == FindAllComment(src, 1, marker)
    IN  IF Len(matches) = 0 THEN [inner |-> <<>>, cleaned |-> src]
        ELSE [inner   |-> TrimSpace(matches[1].inner),
              cleaned |-> RemoveMatches(src, matches)]

\* The strict pattern `/\*\*\s*@ParcerConfig\s*\n([\s\S]*?)\*/` matches with
\* its opener at index q: the white space after the marker holds a line
\* break, and a closer follows it.
StrictBlockAt(s, q) ==
    /\ q \in 1..Len(s)
    /\ s[q] = "/**"
    /\ LET m  == SkipSpace(s, q + 1)
           e  == SkipSpace(s, m + 1)
           nl == LastBreak(s, m + 1, e - 1)
       IN  /\ m <= Len(s)
           /\ s[m] = "@ParcerConfig"
           /\ nl >= m + 1
           /\ FirstCloseAfter(s, nl + 1) <= Len(s)

\* Group 1 of the leftmost match: `\s*` is greedy, so the `\n` of the
\* pattern is the last line break of the white space after the marker.
StrictInner(s, q) ==
    LET m  == SkipSpace(s, q + 1)
        nl == LastBreak(s, m + 1, SkipSpace(s, m + 1) - 1)
    IN  SubSeq(s, nl + 1, FirstCloseAfter(s, nl + 1) - 1)

\* json.Unmarshal(data, &parserConfig) for the struct ParserConfig: the text
\* must be JSON, an object or null, with a number (or null) for version and
\* an object (or null) for ParserConfig; other members are ignored.
NoConfig == [Version |-> "0"]

UnmarshalParserConfig(s) ==
    LET r == ParseJSON(s)
        m == LastWins(r.val.keys, r.val.vals)
    IN  IF ~r.ok THEN [ok |-> FALSE, cfg |-> NoConfig]
        ELSE IF r.val.t = "null" THEN [ok |-> TRUE, cfg |-> NoConfig]
        ELSE IF r.val.t # "object" THEN [ok |-> FALSE, cfg |-> NoConfig]
        ELSE IF HasField(m, "version") /\ m["version"].t \notin {"number", "null"}
        THEN [ok |-> FALSE, cfg |-> NoConfig]
        ELSE IF HasField(m, "ParserConfig") /\ m["ParserConfig"].t \notin {"object", "null"}
        THEN [ok |-> FALSE, cfg |-> NoConfig]
        ELSE [ok |-> TRUE,
              cfg |-> [Version |-> IF HasField(m, "version") /\ m["version"].t = "number"
                                   THEN m["version"].lit ELSE "0"]]

\* ExtractParcerConfig on a file that was read: the result and the error.
StrictResult(err, cfg) == [returned |-> TRUE, err |-> err, cfg |-> cfg]

\* Mutant of ExtractParcerConfig: a missing block is not an error, an empty
\* configuration is returned.
ExtractParcerConfig_Lenient(data) ==
    LET q == FirstIn({h \in 1..Len(data) : StrictBlockAt(data, h)}, Len(data) + 1)
        decoded == UnmarshalParserConfig(TrimSpace(StrictInner(data, q)))
    IN  IF q > Len(data) THEN StrictResult("", NoConfig)
        ELSE IF ~decoded.ok THEN StrictResult("failed to parse @ParcerConfig JSON", <<>>)
        ELSE StrictResult("", decoded.cfg)

ExtractParcerConfig(data) ==
    LET q == FirstIn({h \in 1..Len(data) : StrictBlockAt(data, h)}, Len(data) + 1)
        decoded == UnmarshalParserConfig(TrimSpace(StrictInner(data, q)))
    IN  IF q > Len(data) THEN StrictResult("@ParcerConfig block not found", <<>>)
        ELSE IF ~decoded.ok THEN StrictResult("failed to parse @ParcerConfig JSON", <<>>)
        ELSE StrictResult("", decoded.cfg)

\* Mutant of extractDefaultFinal: a final field of any type is returned.
extractDefaultFinal_AnyFinal(sections) ==
    IF "route" \notin DOMAIN sections \/ Len(sections["route"]) = 0 THEN ""
    ELSE LET route == UnmarshalMap(sections["route"])
         IN  IF ~route.ok THEN ""
             ELSE IF IsStringField(route.m, "final") THEN route.m["final"].word
             ELSE IF HasField(route.m, "final") THEN "1"
             ELSE ""

extractDefaultFinal(sections) ==
    IF "route" \notin DOMAIN sections \/ Len(sections["route"]) = 0 THEN ""
    ELSE LET route == UnmarshalMap(sections["route"])
         IN  IF ~route.ok THEN ""
             ELSE IF IsStringField(route.m, "final") THEN route.m["final"].word
             ELSE ""

----------------------------------------------------------------------------
(* Blocks given to the rule-block parser: the trimmed inner texts of        *)
(* selectable-rule blocks.                                                 *)

ObjAuto == <<"{", "\"label\"", ":", " ", "\"Auto\"", "}">>

ObjOutbound == <<"{", "\"outbound\"", ":", " ", "\"proxy-a\"", "}">>

ObjOwnDirect ==
    <<"{", "\"label\"", ":", "\"Own\"", ",", " ", "\"outbound\"", ":", "\"direct\"", "}">>

ObjEmptyLabel == <<"{", "\"label\"", ":", "\"\"", "}">>

ObjNumberLabel == <<"{", "\"label\"", ":", "7", "}">>

ObjEmpty == <<"{", "}">>

RuleBlock(k) ==
    CASE k = 1 -> ObjAuto \o <<",">>
      [] k = 2 -> ObjOutbound
      [] k = 3 -> <<"[">> \o ObjAuto \o <<",", "\n">> \o ObjOutbound \o <<"]">>
      [] k = 4 -> <<"@label", " ", "Ads", "\n">> \o ObjOwnDirect
      [] k = 5 -> <<"@label", " ", "Block", " ", "Ads", "\n",
                    "@description", " ", "desc", "\n", "[", "\n">>
                  \o ObjEmpty \o <<",", "\n">> \o ObjOwnDirect \o <<"\n", "]", ",">>
      [] k = 6 -> <<"@label", "\n">> \o ObjEmptyLabel
      [] k = 7 -> ObjNumberLabel
      [] k = 8 -> <<"@label", " ", "Ads">>
      [] k = 9 -> <<"{", "\"label\"", ":">>
      [] k = 10 -> <<>>
      [] k = 11 -> <<"{", "\n", " ", "@description", " ", "desc", "\n",
                     " ", "\"outbound\"", ":", " ", "1", "\n", "}">>
      [] k = 12 -> <<"[", "7", "]">>
      [] k = 13 -> <<",">>
      [] k = 14 -> <<"null">>
      [] k = 15 -> ObjAuto \o <<",", " ">> \o ObjOutbound

RuleBlockKinds == 1..15

----------------------------------------------------------------------------
(* Templates given to the section orderer: an object of members name : {} *)

SectionKeyLits ==
    {"\"log\"", "\"dns\"", "\"inbounds\"", "\"outbounds\"", "\"route\"",
     "\"experimental\"", "\"rule_set\"", "\"rules\"", "\"ntp\"", "\"endpoints\""}

RECURSIVE JoinMembers(_)
JoinMembers(ms) ==
    IF Len(ms) = 0 THEN <<>>
    ELSE IF Len(ms) = 1 THEN Head(ms)
    ELSE Head(ms) \o <<",", "\n">> \o JoinMembers(Tail(ms))

ObjectDoc(ms) == <<"{", "\n">> \o JoinMembers(ms) \o <<"\n", "}">>

EmptyMember(lit) == <<lit, ":", " ", "{", "}">>

----------------------------------------------------------------------------
(* Templates given to loadTemplateData: an optional @ParcerConfig block and *)
(* an object of members, some of them arrays that hold selectable-rule     *)
(* blocks.                                                                 *)

SelectableBlock(k) ==
    <<"/**", " ", "@SelectableRule", "\n">> \o RuleBlock(k) \o <<"\n", "*/">>

ParcerConfigBlock == <<"/**", " ", "@ParcerConfig", "\n", "cfg", "\n", "*/", "\n">>

\* A second metadata block, whose inner text is JSON.
ParcerConfigJSONBlock ==
    <<"/**", "@ParcerConfig", " ", "\n", "{", "\"version\"", ":", " ", "1", "}", "*/", "\n">>

\* The metadata blocks of a template: none, one of either kind before the
\* object, or one before the object and the other after it.
ConfigKinds == 0..3

ConfigBefore(cfg) ==
    CASE cfg = 0 -> <<>>
      [] cfg = 1 -> ParcerConfigBlock
      [] cfg = 2 -> ParcerConfigJSONBlock
      [] cfg = 3 -> ParcerConfigBlock

ConfigAfter(cfg) == IF cfg = 3 THEN <<"\n">> \o ParcerConfigJSONBlock ELSE <<>>

Member(k) ==
    CASE k = 1 -> EmptyMember("\"log\"")
      [] k = 2 -> EmptyMember("\"ntp\"")
      [] k = 3 -> EmptyMember("\"endpoints\"")
      [] k = 4 -> <<"\"route\"", ":", " ", "{", "\"final\"", ":", " ", "\"auto\"", "}">>
      [] k = 5 -> <<"\"route\"", ":", " ", "{", "\"rules\"", ":", " ", "[", "\n",
                    "{", "}", ",", "\n">> \o SelectableBlock(3) \o <<"\n", "]", "}">>
      [] k = 6 -> <<"\"rules\"", ":", " ", "[", "\n">> \o SelectableBlock(4)
                  \o <<"\n">> \o SelectableBlock(2) \o <<"\n", "]">>
      [] k = 7 -> <<"\"dns\"", ":", " ", "[", "\n">> \o SelectableBlock(9) \o <<"\n", "]">>
      [] k = 8 -> <<"\"outbounds\"", ":", " ", "[", "{", "}", ",", " ">>
                  \o SelectableBlock(1) \o <<",", " ", "{", "}", "]">>
      [] k = 9 -> <<"\"route\"", ":", " ", "[", "]">>
      [] k = 10 -> <<"\"route\"", ":", " ", "{", "\"final\"", ":", " ", "1", "}">>

MemberKinds == 1..10

Template(cfg, ks) ==
    ConfigBefore(cfg) \o ObjectDoc([i \in 1..Len(ks) |-> Member(ks[i])])
        \o ConfigAfter(cfg)

\* The calls of loadTemplateData that run side by side.
Calls == {1, 2}

----------------------------------------------------------------------------
(* Specifications.  Each one runs one part of the loader; the variables of  *)
(* the other parts stay as they are.                                       *)

XIdle == xSrc = <<>> /\ xBlocks = <<>> /\ xCleaned = <<>> /\ xpc = "idle"

OIdle == oDoc = <<>> /\ oSections = NoMap /\ oOrder = <<>> /\ opc = "idle"

RIdle ==
    rBlocks = <<>> /\ rRules = <<>> /\ rErr = "" /\ rErrBlock = 0 /\ rpc = "idle"

LIdle ==
    /\ tplFile = <<>> /\ lpc = <<>> /\ lv = <<>> /\ lres = <<>>
    /\ spc = "idle" /\ sres = <<>>

DIdle ==
    /\ controller = <<>> /\ tab = <<>> /\ goroutines = EmptyBag /\ uiQueue = <<>>
    /\ netLog = {} /\ events = <<>>

MIdle == mLines = <<>> /\ mResult = <<>> /\ mpc = "idle"

AIdle == app = <<>> /\ appRunning = FALSE /\ appQueue = <<>> /\ appEvents = <<>>

BIdle == content = <<>> /\ decodeRet = <<>> /\ decodePc = "idle"

NIdle == MIdle /\ AIdle /\ BIdle

(* extractAllSelectableBlocks *)

XInit ==
    /\ \/ \E n \in 0..MaxSegs : \E segs \in [1..n -> SegmentKinds] :
             xSrc = ArrayDoc(segs)
       \/ xSrc \in ElemBlockElemDocs
    /\ xBlocks = <<>>
    /\ xCleaned = <<>>
    /\ xpc = "call"
    /\ OIdle /\ RIdle /\ LIdle /\ DIdle /\ NIdle

ExtractAllSelectableBlocks ==
    /\ xpc = "call"
    /\ LET r == extractAllSelectableBlocks(xSrc)
       IN  /\ xBlocks' = r.blocks
           /\ xCleaned' = r.cleaned
    /\ xpc' = "done"
    /\ UNCHANGED <<xSrc, ovars, rvars, lvars, dvars, nvars>>

XNext == ExtractAllSelectableBlocks

SpecExtract == XInit /\ [][XNext]_vars

(* json.Unmarshal into sections, then orderTemplateSections *)

OInit ==
    /\ \E n \in 0..MaxKeys : \E lits \in [1..n -> SectionKeyLits] :
          oDoc = ObjectDoc([i \in 1..n |-> EmptyMember(lits[i])])
    /\ oSections = NoMap
    /\ oOrder = <<>>
    /\ opc = "parse"
    /\ XIdle /\ RIdle /\ LIdle /\ DIdle /\ NIdle

\* loadTemplateData, lines 64-78: reduce, validate, decode the top level.
ParseSections ==
    /\ opc = "parse"
    /\ LET jsonBytes == jsoncToJSON(oDoc)
           decoded   == UnmarshalRawMap(jsonBytes)
       IN  IF jsonValid(jsonBytes) /\ decoded.ok
           THEN oSections' = decoded.m /\ opc' = "order"
           ELSE oSections' = oSections /\ opc' = "error"
    /\ UNCHANGED <<oDoc, oOrder, xvars, rvars, lvars, dvars, nvars>>

\* loadTemplateData, line 82.
OrderSections ==
    /\ opc = "order"
    /\ \E range \in MapRanges(oSections) :
          oOrder' = orderTemplateSections(oSections, range)
    /\ opc' = "done"
    /\ UNCHANGED <<oDoc, oSections, xvars, rvars, lvars, dvars, nvars>>

ONext == ParseSections \/ OrderSections

SpecOrder == OInit /\ [][ONext]_vars

(* parseSelectableRules *)

RInit ==
    /\ \E n \in 0..MaxBlocks : \E ks \in [1..n -> RuleBlockKinds] :
          rBlocks = [i \in 1..n |-> RuleBlock(ks[i])]
    /\ rRules = <<>>
    /\ rErr = ""
    /\ rErrBlock = 0
    /\ rpc = "call"
    /\ XIdle /\ OIdle /\ LIdle /\ DIdle /\ NIdle

ParseSelectableRules ==
    /\ rpc = "call"
    /\ LET r == parseSelectableRules(rBlocks)
       IN  /\ rRules' = r.rules
           /\ rErr' = r.err
           /\ rErrBlock' = r.block
    /\ rpc' = "done"
    /\ UNCHANGED <<rBlocks, xvars, ovars, lvars, dvars, nvars>>

RNext == ParseSelectableRules

SpecRules == RInit /\ [][RNext]_vars

(* loadTemplateData, statement by statement, in every call of Calls *)

\* The local variables of a call, before its first statement.
NoLocals ==
    [raw |-> <<>>, parserConfig |-> <<>>, cleaned |-> <<>>, selectableBlocks |-> <<>>,
     jsonBytes |-> <<>>, sections |-> NoMap, sectionOrder |-> <<>>,
     defaultFinal |-> "", selectableRules |-> <<>>]

NoResult == [returned |-> FALSE, err |-> "", data |-> <<>>]

ReturnError(kind) == [returned |-> TRUE, err |-> kind, data |-> <<>>]

LInit ==
    /\ \E cfg \in ConfigKinds : \E n \in 0..MaxMembers :
          \E ks \in [1..n -> MemberKinds] : tplFile = Template(cfg, ks)
    /\ lpc = [c \in Calls |-> "read"]
    /\ lv = [c \in Calls |-> NoLocals]
    /\ lres = [c \in Calls |-> NoResult]
    /\ spc = "call"
    /\ sres = [returned |-> FALSE, err |-> "", cfg |-> <<>>]
    /\ XIdle /\ OIdle /\ RIdle /\ DIdle /\ NIdle

\* What a statement of loadTemplateData leaves alone, besides its own state.
Others == <<xvars, ovars, rvars, spc, sres, dvars, nvars>>

\* Lines 42-51: os.ReadFile, which may fail.
ReadFile(c) ==
    /\ lpc[c] = "read"
    /\ \E readable \in BOOLEAN :
          IF readable
          THEN /\ lv' = [lv EXCEPT ![c].raw = tplFile]
               /\ lpc' = [lpc EXCEPT ![c] = "extractComment"]
               /\ lres' = lres
          ELSE /\ lv' = lv
               /\ lpc' = [lpc EXCEPT ![c] = "error"]
               /\ lres' = [lres EXCEPT ![c] = ReturnError("read")]
    /\ UNCHANGED <<tplFile, Others>>

\* Line 52.
ExtractComment(c) ==
    /\ lpc[c] = "extractComment"
    /\ LET r == extractCommentBlock(lv[c].raw, "@ParcerConfig")
       IN  lv' = [lv EXCEPT ![c].parserConfig = r.inner, ![c].cleaned = r.cleaned]
    /\ lpc' = [lpc EXCEPT ![c] = "extractBlocks"]
    /\ UNCHANGED <<tplFile, lres, Others>>

\* Line 55.
ExtractBlocks(c) ==
    /\ lpc[c] = "extractBlocks"
    /\ LET r == extractAllSelectableBlocks(lv[c].cleaned)
       IN  lv' = [lv EXCEPT ![c].selectableBlocks = r.blocks, ![c].cleaned = r.cleaned]
    /\ lpc' = [lpc EXCEPT ![c] = "validate"]
    /\ UNCHANGED <<tplFile, lres, Others>>

\* Mutant of ValidateJSON: the reducer is given the text as read from the
\* file, the annotation blocks still in it.
ValidateJSON_BeforeExtraction(c) ==
    /\ lpc[c] = "validate"
    /\ LET jsonBytes == jsoncToJSON(lv[c].raw)
       IN  /\ lv' = [lv EXCEPT ![c].jsonBytes = jsonBytes]
           /\ IF jsonValid(jsonBytes)
              THEN lpc' = [lpc EXCEPT ![c] = "unmarshal"] /\ lres' = lres
              ELSE /\ lpc' = [lpc EXCEPT ![c] = "error"]
                   /\ lres' = [lres EXCEPT ![c] = ReturnError("invalid JSON")]
    /\ UNCHANGED <<tplFile, Others>>

\* Lines 64-70.
ValidateJSON(c) ==
    /\ lpc[c] = "validate"
    /\ LET jsonBytes == jsoncToJSON(lv[c].cleaned)
       IN  /\ lv' = [lv EXCEPT ![c].jsonBytes = jsonBytes]
           /\ IF jsonValid(jsonBytes)
              THEN lpc' = [lpc EXCEPT ![c] = "unmarshal"] /\ lres' = lres
              ELSE /\ lpc' = [lpc EXCEPT ![c] = "error"]
                   /\ lres' = [lres EXCEPT ![c] = ReturnError("invalid JSON")]
    /\ UNCHANGED <<tplFile, Others>>

\* Lines 74-78.
UnmarshalSections(c) ==
    /\ lpc[c] = "unmarshal"
    /\ LET decoded == UnmarshalRawMap(lv[c].jsonBytes)
       IN  IF decoded.ok
           THEN /\ lv' = [lv EXCEPT ![c].sections = decoded.m]
                /\ lpc' = [lpc EXCEPT ![c] = "order"]
                /\ lres' = lres
           ELSE /\ lv' = lv
                /\ lpc' = [lpc EXCEPT ![c] = "error"]
                /\ lres' = [lres EXCEPT ![c] = ReturnError("failed to parse")]
    /\ UNCHANGED <<tplFile, Others>>

\* Line 82.
OrderTemplateSections(c) ==
    /\ lpc[c] = "order"
    /\ \E range \in MapRanges(lv[c].sections) :
          lv' = [lv EXCEPT ![c].sectionOrder = orderTemplateSections(lv[c].sections, range)]
    /\ lpc' = [lpc EXCEPT ![c] = "defaultFinal"]
    /\ UNCHANGED <<tplFile, lres, Others>>

\* Lines 85-88.
ExtractDefaultFinal(c) ==
    /\ lpc[c] = "defaultFinal"
    /\ lv' = [lv EXCEPT ![c].defaultFinal = extractDefaultFinal(lv[c].sections)]
    /\ lpc' = [lpc EXCEPT ![c] = "rules"]
    /\ UNCHANGED <<tplFile, lres, Others>>

\* Mutant of ParseRules: the rules are appended to one list that all calls
\* share, so the label counter goes on from the rules of the other calls.
ParseRules_SharedRules(c) ==
    /\ lpc[c] = "rules"
    /\ LET other == CHOOSE d \in Calls : d # c
           r == IF Len(lv[c].selectableBlocks) = 0
                THEN [rules |-> <<>>, err |-> "", block |-> 0]
                ELSE parseBlocksFrom(lv[c].selectableBlocks, 1, lv[other].selectableRules)
       IN  IF r.err = ""
           THEN /\ lv' = [lv EXCEPT ![c].selectableRules = r.rules]
                /\ lpc' = [lpc EXCEPT ![c] = "assemble"]
                /\ lres' = lres
           ELSE /\ lv' = lv
                /\ lpc' = [lpc EXCEPT ![c] = "error"]
                /\ lres' = [lres EXCEPT ![c] = ReturnError(r.err)]
    /\ UNCHANGED <<tplFile, Others>>

\* Lines 90-94.
ParseRules(c) ==
    /\ lpc[c] = "rules"
    /\ LET r == parseSelectableRules(lv[c].selectableBlocks)
       IN  IF r.err = ""
           THEN /\ lv' = [lv EXCEPT ![c].selectableRules = r.rules]
                /\ lpc' = [lpc EXCEPT ![c] = "assemble"]
                /\ lres' = lres
           ELSE /\ lv' = lv
                /\ lpc' = [lpc EXCEPT ![c] = "error"]
                /\ lres' = [lres EXCEPT ![c] = ReturnError(r.err)]
    /\ UNCHANGED <<tplFile, Others>>

\* Lines 98-108.
Assemble(c) ==
    /\ lpc[c] = "assemble"
    /\ lres' = [lres EXCEPT ![c] =
          [returned |-> TRUE, err |-> "",
           data |-> [ParserConfig    |-> TrimSpace(lv[c].parserConfig),
                     Sections        |-> lv[c].sections,
                     SectionOrder    |-> lv[c].sectionOrder,
                     SelectableRules |-> lv[c].selectableRules,
                     DefaultFinal    |-> lv[c].defaultFinal]]]
    /\ lpc' = [lpc EXCEPT ![c] = "done"]
    /\ UNCHANGED <<tplFile, lv, Others>>

loadTemplateData(c) ==
    \/ ReadFile(c)
    \/ ExtractComment(c)
    \/ ExtractBlocks(c)
    \/ ValidateJSON(c)
    \/ UnmarshalSections(c)
    \/ OrderTemplateSections(c)
    \/ ExtractDefaultFinal(c)
    \/ ParseRules(c)
    \/ Assemble(c)

\* core.ExtractParcerConfig, the strict entry point, called on the same
\* document: os.ReadFile may fail; then the block is looked up and decoded.
ExtractParcerConfigCall ==
    /\ spc = "call"
    /\ \E readable \in BOOLEAN :
          sres' = IF readable THEN ExtractParcerConfig(tplFile)
                  ELSE StrictResult("failed to read config.json", <<>>)
    /\ spc' = "done"
    /\ UNCHANGED <<tplFile, lpc, lv, lres, xvars, ovars, rvars, dvars, nvars>>

LNext == (\E c \in Calls : loadTemplateData(c)) \/ ExtractParcerConfigCall

SpecLoad == LInit /\ [][LNext]_vars

----------------------------------------------------------------------------
(* The Core Dashboard tab: CreateCoreDashboardTab, its click handlers, the  *)
(* goroutines they spawn and the functions those hand to fyne.Do            *)

MaxDownloadClicks == 2
MaxWintunClicks == 1
MaxTicks == 1
MaxStateChanges == 1
MaxProgress == 1
MaxEvents == 2

Button(enabled, shown) == [enabled |-> enabled, shown |-> shown]

(* The tab as the create... functions leave it: widget.NewButton gives an   *)
(* enabled, visible button; the two download buttons are disabled and the   *)
(* two progress bars hidden.                                                *)
NewTab ==
    [statusLabel |-> "Checking...",
     startButton |-> Button(TRUE, TRUE),
     stopButton |-> Button(TRUE, TRUE),
     downloadButton |-> Button(FALSE, TRUE),
     downloadProgress |-> FALSE,
     wintunDownloadButton |-> Button(FALSE, TRUE),
     wintunDownloadProgress |-> FALSE,
     lastUpdateSuccess |-> FALSE,
     downloadInProgress |-> FALSE,
     wintunDownloadInProgress |-> FALSE]

Enable(b) == [b EXCEPT !.enabled = TRUE]

Disable(b) == [b EXCEPT !.enabled = FALSE]

Show(b) == [b EXCEPT !.shown = TRUE]

Hide(b) == [b EXCEPT !.shown = FALSE]

Tappable(b) == b.enabled /\ b.shown

\* Mutant of updateRunningStatus: with the binary missing only the label is
\* set, the buttons are left as they are.
updateRunningStatus_LabelOnly(t, ctl) ==
    IF ~ctl.binary
    THEN [t EXCEPT !.statusLabel = "not found"]
    ELSE IF ctl.running
    THEN [t EXCEPT !.statusLabel = "Running",
                   !.startButton = Disable(@), !.stopButton = Enable(@)]
    ELSE [t EXCEPT !.statusLabel = "Stopped",
                   !.startButton = Enable(@), !.stopButton = Disable(@)]

updateRunningStatus(t, ctl) ==
    IF ~ctl.binary
    THEN [t EXCEPT !.statusLabel = "not found",
                   !.startButton = Disable(@), !.stopButton = Disable(@)]
    ELSE IF ctl.running
    THEN [t EXCEPT !.statusLabel = "Running",
                   !.startButton = Disable(@), !.stopButton = Enable(@)]
    ELSE [t EXCEPT !.statusLabel = "Stopped",
                   !.startButton = Enable(@), !.stopButton = Disable(@)]

updateBinaryStatus(t, ctl) ==
    IF ~ctl.binary THEN [t EXCEPT !.statusLabel = "not found"]
    ELSE updateRunningStatus(t, ctl)

updateWintunStatus(t, ctl) ==
    IF ctl.goos # "windows" THEN t
    ELSE IF ctl.wintun = "err"
    THEN [t EXCEPT !.wintunDownloadButton = Disable(@)]
    ELSE IF ctl.wintun = "exists"
    THEN [t EXCEPT !.wintunDownloadButton = Hide(@),
                   !.wintunDownloadProgress = FALSE]
    ELSE [t EXCEPT !.wintunDownloadButton = Enable(Show(@))]

(* A goroutine is a record: the function whose go statement started it, its *)
(* position, and for a download the progress channel it shares with the     *)
(* goroutine that reads it.                                                 *)
Goroutine(fn, pc) == [fn |-> fn, pc |-> pc, ch |-> <<>>, sent |-> 0]

Spawn(gs, g) == gs (+) SetToBag({g})

Exit(gs, g) == gs (-) SetToBag({g})

Running(g) == BagIn(g, goroutines)

(* fyne.Do(f): f is queued and run later by the UI thread.                  *)
Closure(fn, arg) == [fn |-> fn, arg |-> arg]

NetCall(call, by) == [call |-> call, by |-> by]

ProgressChanCap == 10

(* startDownloadWithVersion: the part that changes the tab                  *)
startDownloadWithVersion(t) ==
    [t EXCEPT !.downloadInProgress = TRUE,
              !.downloadButton = Hide(Disable(@)),
              !.downloadProgress = TRUE]

(* ... and the two goroutines it starts around progressChan                 *)
DownloadGoroutines == Goroutine("startDownloadWithVersion", "start")

NoEvents == [download |-> 0, wintun |-> 0, tick |-> 0, state |-> 0]

Platforms == {"windows", "linux"}

WintunStates == {"err", "exists", "missing"}

(* What the tab can find when it is created: the platform, whether the      *)
(* sing-box binary is installed, whether the core runs, and CheckWintunDLL. *)
Controllers ==
    {ctl \in [goos : Platforms, binary : BOOLEAN, running : BOOLEAN,
              wintun : WintunStates] :
        /\ ctl.running => ctl.binary
        /\ ctl.goos # "windows" => ctl.wintun = "missing"}

EventCount == events.download + events.wintun + events.tick + events.state

DOthers == <<xvars, ovars, rvars, lvars, nvars>>

(* CreateCoreDashboardTab: the state when it returns                        *)
DInit ==
    /\ XIdle /\ OIdle /\ RIdle /\ LIdle /\ NIdle
    /\ controller \in Controllers
    /\ tab = updateWintunStatus(updateBinaryStatus(NewTab, controller),
                                controller)
    /\ goroutines = SetToBag({Goroutine("updateVersionInfoAsync", "start")})
    /\ uiQueue = <<>>
    /\ netLog = {}
    /\ events = NoEvents

(* A click on the Download button, done by the UI thread, with the network  *)
(* lookup made by the UI thread itself instead of a goroutine.              *)
handleDownload_Synchronous ==
    /\ Tappable(tab.downloadButton)
    /\ events.download < MaxDownloadClicks /\ EventCount < MaxEvents
    /\ events' = [events EXCEPT !.download = @ + 1]
    /\ IF tab.downloadInProgress
       THEN UNCHANGED <<tab, goroutines, netLog>>
       ELSE \E known \in BOOLEAN :
              /\ netLog' = IF known THEN netLog
                           ELSE netLog \cup
                                {NetCall("GetLatestCoreVersion", "ui")}
              /\ tab' = startDownloadWithVersion(tab)
              /\ goroutines' = Spawn(goroutines, DownloadGoroutines)
    /\ UNCHANGED <<controller, uiQueue, DOthers>>

(* A click on the Download button, done by the UI thread.                   *)
handleDownload ==
    /\ Tappable(tab.downloadButton)
    /\ events.download < MaxDownloadClicks /\ EventCount < MaxEvents
    /\ events' = [events EXCEPT !.download = @ + 1]
    /\ IF tab.downloadInProgress
       THEN UNCHANGED <<tab, goroutines>>
       ELSE \E known \in BOOLEAN :
              IF ~known
              THEN /\ goroutines' =
                        Spawn(goroutines, Goroutine("handleDownload", "start"))
                   /\ UNCHANGED tab
              ELSE /\ tab' = startDownloadWithVersion(tab)
                   /\ goroutines' = Spawn(goroutines, DownloadGoroutines)
    /\ UNCHANGED <<controller, uiQueue, netLog, DOthers>>

(* A click on the "Download wintun.dll" button, done by the UI thread.      *)
handleWintunDownload ==
    /\ Tappable(tab.wintunDownloadButton)
    /\ events.wintun < MaxWintunClicks /\ EventCount < MaxEvents
    /\ events' = [events EXCEPT !.wintun = @ + 1]
    /\ IF tab.wintunDownloadInProgress
       THEN UNCHANGED <<tab, goroutines>>
       ELSE /\ tab' = [tab EXCEPT !.wintunDownloadInProgress = TRUE,
                                  !.wintunDownloadButton = Disable(@),
                                  !.wintunDownloadProgress = TRUE]
            /\ goroutines' =
                 Spawn(goroutines, Goroutine("handleWintunDownload", "start"))
    /\ UNCHANGED <<controller, uiQueue, netLog, DOthers>>

(* startAutoUpdate: the delay of the loop has passed.  The loop calls       *)
(* updateVersionInfo and starts the goroutine that will set                 *)
(* lastUpdateSuccess.                                                       *)
startAutoUpdate ==
    /\ events.tick < MaxTicks /\ EventCount < MaxEvents
    /\ events' = [events EXCEPT !.tick = @ + 1]
    /\ goroutines' =
         Spawn(Spawn(goroutines, Goroutine("updateVersionInfoAsync", "start")),
               Goroutine("startAutoUpdate", "sleep"))
    /\ UNCHANGED <<controller, tab, uiQueue, netLog, DOthers>>

(* ... and that goroutine, two seconds later                                *)
SetLastUpdateSuccess ==
    /\ Running(Goroutine("startAutoUpdate", "sleep"))
    /\ tab' = [tab EXCEPT !.lastUpdateSuccess = TRUE]
    /\ goroutines' = Exit(goroutines, Goroutine("startAutoUpdate", "sleep"))
    /\ UNCHANGED <<controller, uiQueue, netLog, events, DOthers>>

(* The controller calls UpdateCoreStatusFunc, after RunningState changed or *)
(* a start or stop was tried; without the binary the core cannot run.       *)
UpdateCoreStatusFunc ==
    /\ events.state < MaxStateChanges /\ EventCount < MaxEvents
    /\ events' = [events EXCEPT !.state = @ + 1]
    /\ \E running \in (IF controller.binary THEN BOOLEAN ELSE {FALSE}) :
          controller' = [controller EXCEPT !.running = running]
    /\ uiQueue' = Append(uiQueue, Closure("updateRunningStatus", ""))
    /\ UNCHANGED <<tab, goroutines, netLog, DOthers>>

(* The goroutine of updateVersionInfoAsync: GetInstalledCoreVersion, the    *)
(* first fyne.Do, and the call of GetLatestCoreVersion on one of the two    *)
(* paths.                                                                   *)
VersionInstalled(g) ==
    /\ g.fn = "updateVersionInfoAsync" /\ g.pc = "start"
    /\ uiQueue' = Append(uiQueue,
                    Closure("installedVersion",
                            IF controller.binary THEN "ok" ELSE "err"))
    /\ netLog' = netLog \cup {NetCall("GetLatestCoreVersion", "goroutine")}
    /\ goroutines' =
         Spawn(Exit(goroutines, g),
               [g EXCEPT !.pc = IF controller.binary THEN "latest"
                                ELSE "latestForButton"])
    /\ UNCHANGED <<controller, tab, events, DOthers>>

LatestOutcomes(pc) ==
    IF pc = "latest" THEN {"err", "newer", "current"} ELSE {"err", "ok"}

(* GetLatestCoreVersion returns to it; the second fyne.Do; the goroutine    *)
(* ends.                                                                    *)
VersionLatest(g) ==
    /\ g.fn = "updateVersionInfoAsync"
    /\ g.pc \in {"latest", "latestForButton"}
    /\ \E outcome \in LatestOutcomes(g.pc) :
          uiQueue' = Append(uiQueue, Closure(g.pc, outcome))
    /\ goroutines' = Exit(goroutines, g)
    /\ UNCHANGED <<controller, tab, netLog, events, DOthers>>

(* The goroutine of handleDownload calls GetLatestCoreVersion ...           *)
FetchLatestCall(g) ==
    /\ g.fn = "handleDownload" /\ g.pc = "start"
    /\ netLog' = netLog \cup {NetCall("GetLatestCoreVersion", "goroutine")}
    /\ goroutines' = Spawn(Exit(goroutines, g), [g EXCEPT !.pc = "latest"])
    /\ UNCHANGED <<controller, tab, uiQueue, events, DOthers>>

(* ... and hands the result to fyne.Do.                                     *)
FetchLatestReturn(g) ==
    /\ g.fn = "handleDownload" /\ g.pc = "latest"
    /\ \E outcome \in {"err", "ok"} :
          uiQueue' = Append(uiQueue, Closure("fetched", outcome))
    /\ goroutines' = Exit(goroutines, g)
    /\ UNCHANGED <<controller, tab, netLog, events, DOthers>>

DownloadFns == {"startDownloadWithVersion", "handleWintunDownload"}

DownloadCallOf(fn) ==
    IF fn = "startDownloadWithVersion" THEN "DownloadCore"
    ELSE "DownloadWintunDLL"

(* The downloading goroutine calls DownloadCore / DownloadWintunDLL.        *)
DownloadCall(g) ==
    /\ g.fn \in DownloadFns /\ g.pc = "start"
    /\ netLog' = netLog \cup {NetCall(DownloadCallOf(g.fn), "goroutine")}
    /\ goroutines' =
         Spawn(Exit(goroutines, g), [g EXCEPT !.pc = "downloading"])
    /\ UNCHANGED <<controller, tab, uiQueue, events, DOthers>>

(* The download sends a progress message on the channel.                    *)
DownloadProgress(g) ==
    /\ g.fn \in DownloadFns /\ g.pc = "downloading"
    /\ g.sent < MaxProgress
    /\ Len(g.ch) < ProgressChanCap
    /\ goroutines' =
         Spawn(Exit(goroutines, g),
               [g EXCEPT !.ch = Append(@, "progress"), !.sent = @ + 1])
    /\ UNCHANGED <<controller, tab, uiQueue, netLog, events, DOthers>>

Downloaded(ctl, fn) ==
    IF fn = "startDownloadWithVersion" THEN [ctl EXCEPT !.binary = TRUE]
    ELSE [ctl EXCEPT !.wintun = "exists"]

(* The download ends: its last message is "done" or "error".                *)
DownloadEnd(g) ==
    /\ g.fn \in DownloadFns /\ g.pc = "downloading"
    /\ Len(g.ch) < ProgressChanCap
    /\ \E status \in {"done", "error"} :
          /\ goroutines' =
               Spawn(Exit(goroutines, g),
                     [g EXCEPT !.ch = Append(@, status), !.pc = "ended"])
          /\ controller' = IF status = "done" THEN Downloaded(controller, g.fn)
                           ELSE controller
    /\ UNCHANGED <<tab, uiQueue, netLog, events, DOthers>>

ProgressClosureOf(fn) ==
    IF fn = "startDownloadWithVersion" THEN "downloadProgress"
    ELSE "wintunProgress"

(* The reading goroutine takes one message from the channel and hands its   *)
(* handling to fyne.Do.                                                     *)
ReadProgress(g) ==
    /\ g.fn \in DownloadFns /\ g.ch # <<>>
    /\ uiQueue' = Append(uiQueue, Closure(ProgressClosureOf(g.fn), Head(g.ch)))
    /\ goroutines' =
         IF g.pc = "ended" /\ Len(g.ch) = 1 THEN Exit(goroutines, g)
         ELSE Spawn(Exit(goroutines, g), [g EXCEPT !.ch = Tail(@)])
    /\ UNCHANGED <<controller, tab, netLog, events, DOthers>>

(* What a function handed to fyne.Do does to the tab when it runs           *)
RunClosure(t, ctl, c) ==
    CASE c.fn = "installedVersion" ->
           IF c.arg = "err"
           THEN [t EXCEPT !.downloadButton = Show(Enable(@))]
           ELSE t
      [] c.fn = "latestForButton" -> t
      [] c.fn = "latest" ->
           IF c.arg = "newer"
           THEN [t EXCEPT !.downloadButton = Show(Enable(@))]
           ELSE [t EXCEPT !.downloadButton = Hide(@)]
      [] c.fn = "fetched" ->
           IF c.arg = "err"
           THEN [t EXCEPT !.downloadInProgress = FALSE,
                          !.downloadButton = Show(Enable(@))]
           ELSE startDownloadWithVersion(t)
      [] c.fn = "downloadProgress" ->
           IF c.arg = "done"
           THEN updateBinaryStatus(
                  [t EXCEPT !.downloadInProgress = FALSE,
                            !.downloadProgress = FALSE,
                            !.downloadButton = Enable(Show(@))], ctl)
           ELSE IF c.arg = "error"
           THEN [t EXCEPT !.downloadInProgress = FALSE,
                          !.downloadProgress = FALSE,
                          !.downloadButton = Enable(Show(@))]
           ELSE t
      [] c.fn = "wintunProgress" ->
           IF c.arg = "done"
           THEN [updateWintunStatus(
                   [t EXCEPT !.wintunDownloadInProgress = FALSE], ctl)
                   EXCEPT !.wintunDownloadProgress = FALSE,
                          !.wintunDownloadButton = Enable(@)]
           ELSE IF c.arg = "error"
           THEN [t EXCEPT !.wintunDownloadInProgress = FALSE,
                          !.wintunDownloadProgress = FALSE,
                          !.wintunDownloadButton = Enable(Show(@))]
           ELSE t
      [] c.fn = "updateRunningStatus" -> updateRunningStatus(t, ctl)

(* ... and the goroutines it starts                                         *)
SpawnedBy(gs, c) ==
    IF c.fn = "fetched" /\ c.arg = "ok"
    THEN Spawn(gs, DownloadGoroutines)
    ELSE IF c.fn = "downloadProgress" /\ c.arg = "done"
    THEN Spawn(gs, Goroutine("updateVersionInfoAsync", "start"))
    ELSE gs

(* The UI thread runs the next function handed to fyne.Do.                  *)
UIRun ==
    /\ uiQueue # <<>>
    /\ tab' = RunClosure(tab, controller, Head(uiQueue))
    /\ goroutines' = SpawnedBy(goroutines, Head(uiQueue))
    /\ uiQueue' = Tail(uiQueue)
    /\ UNCHANGED <<controller, netLog, events, DOthers>>

DNext ==
    \/ handleDownload
    \/ handleWintunDownload
    \/ startAutoUpdate
    \/ SetLastUpdateSuccess
    \/ UpdateCoreStatusFunc
    \/ UIRun
    \/ \E g \in BagToSet(goroutines) : VersionInstalled(g)
    \/ \E g \in BagToSet(goroutines) : VersionLatest(g)
    \/ \E g \in BagToSet(goroutines) : FetchLatestCall(g)
    \/ \E g \in BagToSet(goroutines) : FetchLatestReturn(g)
    \/ \E g \in BagToSet(goroutines) : DownloadCall(g)
    \/ \E g \in BagToSet(goroutines) : DownloadProgress(g)
    \/ \E g \in BagToSet(goroutines) : DownloadEnd(g)
    \/ \E g \in BagToSet(goroutines) : ReadProgress(g)

SpecDashboard == DInit /\ [][DNext]_vars

----------------------------------------------------------------------------
(* extractRuleMetadata on its own: the block is given as its lines *)

\* Most lines of a block given to extractRuleMetadata.
MaxLines == 4

BlockLine(k) ==
    CASE k = 1 -> <<"{">>
      [] k = 2 -> <<" ", "\"outbound\"", ":", " ", "1">>
      [] k = 3 -> <<>>
      [] k = 4 -> <<" ", "@label", " ", "Block", " ", "Ads">>
      [] k = 5 -> <<"@description", " ", "desc", " ">>
      [] k = 6 -> <<"}">>
      [] k = 7 -> <<"@label">>
      [] k = 8 -> <<"\t">>
      [] k = 9 -> <<"\"label\"", ":", " ", "\"@label\"", ",">>

BlockLineKinds == 1..9

\* strings.Split undone: the lines with a line break between them.
RECURSIVE JoinLines(_)
JoinLines(lines) ==
    IF Len(lines) = 0 THEN <<>>
    ELSE IF Len(lines) = 1 THEN lines[1]
    ELSE lines[1] \o <<"\n">> \o JoinLines(Tail(lines))

(* The blocks parseSelectableRules hands over: inner texts as               *)
(* extractAllSelectableBlocks trimmed them (line 145), the blank ones       *)
(* skipped (lines 185-188).                                                 *)
MInit ==
    /\ \E n \in 1..MaxLines : \E ks \in [1..n -> BlockLineKinds] :
          /\ mLines = [i \in 1..n |-> BlockLine(ks[i])]
          /\ JoinLines(mLines) # <<>>
          /\ TrimSpace(JoinLines(mLines)) = JoinLines(mLines)
    /\ mResult = <<>>
    /\ mpc = "call"
    /\ XIdle /\ OIdle /\ RIdle /\ LIdle /\ DIdle /\ AIdle /\ BIdle

ExtractRuleMetadata ==
    /\ mpc = "call"
    /\ mResult' = extractRuleMetadata(JoinLines(mLines))
    /\ mpc' = "done"
    /\ UNCHANGED <<mLines, xvars, ovars, rvars, lvars, dvars, avars, bvars>>

MNext == ExtractRuleMetadata

SpecMetadata == MInit /\ [][MNext]_vars

----------------------------------------------------------------------------
(* App (app.go): the tabs, the selection handler and the status callback *)

\* Most tab selections by the user, and most calls of UpdateCoreStatusFunc.
MaxSelections == 3
MaxStatusCalls == 2

\* The items of the AppTabs, in the order of NewAppTabs; Items[0] is Core.
TabItems == <<"Core", "Clash API", "Diagnostics", "Tools">>

coreTabItem == TabItems[1]

clashAPITab == TabItems[2]

ItemSet == {TabItems[i] : i \in 1..Len(TabItems)}

\* tabs.OnSelected, and AppTabs.Select, which calls it when the selection
\* changes (and does nothing when the item is selected already).
RECURSIVE OnSelected(_, _, _)
Select(a, item, running) ==
    IF a.selected = item THEN a
    ELSE OnSelected([a EXCEPT !.selected = item], item, running)

\* Mutant of OnSelected: the API is refreshed before the running check.
OnSelected_RefreshFirst(a, item, running) ==
    LET b == [a EXCEPT !.currentTab = item]
    IN  IF item # clashAPITab THEN b
        ELSE IF ~running
        THEN Select([b EXCEPT !.refreshCalls = @ + 1], coreTabItem, running)
        ELSE [b EXCEPT !.refreshCalls = @ + 1]

OnSelected(a, item, running) ==
    LET b == [a EXCEPT !.currentTab = item]
    IN  IF item # clashAPITab THEN b
        ELSE IF ~running THEN Select(b, coreTabItem, running)
        ELSE [b EXCEPT !.refreshCalls = @ + 1]

\* AppTabs.DisableItem: the item is marked disabled; the library may also
\* move the selection off a disabled item, to the first item (autoSelect).
DisableItem(a, item, running, autoSelect) ==
    LET b == [a EXCEPT !.disabled = @ \cup {item}]
    IN  IF autoSelect /\ b.selected = item THEN Select(b, coreTabItem, running)
        ELSE b

EnableItem(a, item) == [a EXCEPT !.disabled = @ \ {item}]

updateClashAPITabState(a, running, autoSelect) ==
    LET b == IF ~running THEN DisableItem(a, clashAPITab, running, autoSelect)
             ELSE EnableItem(a, clashAPITab)
    IN  IF ~running /\ b.currentTab = clashAPITab
        THEN Select(b, TabItems[1], running)
        ELSE b

\* NewApp up to line 65: the first item selected, no handler called yet.
NewAppTabs ==
    [currentTab |-> "nil", selected |-> coreTabItem, disabled |-> {},
     refreshCalls |-> 0]

AOthers == <<xvars, ovars, rvars, lvars, dvars, mvars, bvars>>

\* NewApp: the state when it returns, after line 68.
AInit ==
    /\ appRunning \in BOOLEAN
    /\ \E autoSelect \in BOOLEAN :
          app = updateClashAPITabState(NewAppTabs, appRunning, autoSelect)
    /\ appQueue = <<>>
    /\ appEvents = [select |-> 0, status |-> 0]
    /\ XIdle /\ OIdle /\ RIdle /\ LIdle /\ DIdle /\ MIdle /\ BIdle

\* The user taps a tab: AppTabs selects it and calls OnSelected.
UserSelects(item) ==
    /\ appEvents.select < MaxSelections
    /\ item # app.selected
    /\ appEvents' = [appEvents EXCEPT !.select = @ + 1]
    /\ app' = Select(app, item, appRunning)
    /\ UNCHANGED <<appRunning, appQueue, AOthers>>

\* The controller has changed RunningState (or tried to) and calls the
\* combined UpdateCoreStatusFunc of lines 56-65: the callback of the Core
\* tab hands updateRunningStatus to fyne.Do, then updateClashAPITabState is
\* handed to fyne.Do.
CombinedUpdateCoreStatusFunc ==
    /\ appEvents.status < MaxStatusCalls
    /\ appEvents' = [appEvents EXCEPT !.status = @ + 1]
    /\ appRunning' \in BOOLEAN
    /\ appQueue' = appQueue \o <<"updateRunningStatus", "updateClashAPITabState">>
    /\ UNCHANGED <<app, AOthers>>

\* The UI thread runs the next function handed to fyne.Do.
AppUIRun ==
    /\ appQueue # <<>>
    /\ appQueue' = Tail(appQueue)
    /\ IF Head(appQueue) = "updateClashAPITabState"
       THEN \E autoSelect \in BOOLEAN :
               app' = updateClashAPITabState(app, appRunning, autoSelect)
       ELSE app' = app
    /\ UNCHANGED <<appRunning, appEvents, AOthers>>

ANext ==
    \/ \E item \in ItemSet : UserSelects(item)
    \/ CombinedUpdateCoreStatusFunc
    \/ AppUIRun

SpecApp == AInit /\ [][ANext]_vars

----------------------------------------------------------------------------
(* DecodeSubscriptionContent (subscription_parser.go); text is a sequence  *)
(* of bytes                                                                *)

\* Longest content tried.
MaxContentLen == 5

\* The bytes tried: A Q - + = and line feed, space.
ContentBytes == {65, 81, 45, 43, 61, 10, 32}

padChar == 61

\* strings.TrimSpace on a string of ASCII bytes.
IsSpaceByte(b) == b \in {9, 10, 11, 12, 13, 32}

TrimSpaceBytes(s) ==
    LET keep == {i \in 1..Len(s) : ~IsSpaceByte(s[i])}
    IN  IF keep = {} THEN <<>> ELSE SubSeq(s, Min(keep), Max(keep))

\* The decode map of an encoding ("url" or "std"): the value of a byte of
\* its alphabet, -1 for any other byte.
decodeMap(enc, b) ==
    IF b \in 65..90 THEN b - 65
    ELSE IF b \in 97..122 THEN b - 71
    ELSE IF b \in 48..57 THEN b + 4
    ELSE IF enc = "url" /\ b = 45 THEN 62
    ELSE IF enc = "url" /\ b = 95 THEN 63
    ELSE IF enc = "std" /\ b = 43 THEN 62
    ELSE IF enc = "std" /\ b = 47 THEN 63
    ELSE -1

\* The index of the first byte from si on that is not a line break.
SkipNewlines(src, si) ==
    FirstIn({i \in si..Len(src) : src[i] \notin {10, 13}}, Len(src) + 1)

\* One quantum read from src[si]: up to four values, line breaks skipped,
\* padding closing the input.
RECURSIVE decodeQuantum(_, _, _, _)
decodeQuantum(enc, src, si, dbuf) ==
    IF Len(dbuf) = 4 THEN [dbuf |-> dbuf, si |-> si, end |-> FALSE, err |-> FALSE]
    ELSE IF si > Len(src)
    THEN [dbuf |-> dbuf, si |-> si, end |-> TRUE, err |-> Len(dbuf) # 0]
    ELSE IF decodeMap(enc, src[si]) # -1
    THEN decodeQuantum(enc, src, si + 1, Append(dbuf, decodeMap(enc, src[si])))
    ELSE IF src[si] \in {10, 13} THEN decodeQuantum(enc, src, si + 1, dbuf)
    ELSE IF src[si] # padChar \/ Len(dbuf) < 2
    THEN [dbuf |-> dbuf, si |-> si, end |-> TRUE, err |-> TRUE]
    ELSE LET s2 == SkipNewlines(src, si + 1)
             second == Len(dbuf) = 3 \/ (s2 <= Len(src) /\ src[s2] = padChar)
             after == IF Len(dbuf) = 3 THEN s2 ELSE SkipNewlines(src, s2 + 1)
         IN  [dbuf |-> dbuf, si |-> after, end |-> TRUE,
              err |-> ~second \/ after <= Len(src)]

\* The bytes of a quantum of two, three or four values.
QuantumBytes(dbuf) ==
    LET v == [j \in 1..4 |-> IF j <= Len(dbuf) THEN dbuf[j] ELSE 0]
        val == v[1] * 262144 + v[2] * 4096 + v[3] * 64 + v[4]
        all == <<(val \div 65536) % 256, (val \div 256) % 256, val % 256>>
    IN  IF Len(dbuf) < 2 THEN <<>> ELSE SubSeq(all, 1, Len(dbuf) - 1)

\* Encoding.DecodeString: the bytes, or an error.
RECURSIVE DecodeFrom(_, _, _, _)
DecodeFrom(enc, src, si, out) ==
    LET q == decodeQuantum(enc, src, si, <<>>)
    IN  IF q.err THEN [bytes |-> <<>>, err |-> TRUE]
        ELSE IF q.end THEN [bytes |-> out \o QuantumBytes(q.dbuf), err |-> FALSE]
        ELSE DecodeFrom(enc, src, q.si, out \o QuantumBytes(q.dbuf))

DecodeString(enc, src) == DecodeFrom(enc, src, 1, <<>>)

\* Mutant of DecodeSubscriptionContent: the decoded bytes are returned even
\* when there are none.
DecodeSubscriptionContent_NoEmptyCheck(c) ==
    IF Len(c) = 0 THEN [content |-> <<>>, err |-> "content is empty"]
    ELSE LET url == DecodeString("url", TrimSpaceBytes(c))
             std == DecodeString("std", TrimSpaceBytes(c))
         IN  IF url.err /\ std.err THEN [content |-> c, err |-> ""]
             ELSE [content |-> IF url.err THEN std.bytes ELSE url.bytes,
                   err |-> ""]

DecodeSubscriptionContent(c) ==
    IF Len(c) = 0 THEN [content |-> <<>>, err |-> "content is empty"]
    ELSE LET url == DecodeString("url", TrimSpaceBytes(c))
             std == DecodeString("std", TrimSpaceBytes(c))
             decoded == IF url.err THEN std.bytes ELSE url.bytes
         IN  IF url.err /\ std.err THEN [content |-> c, err |-> ""]
             ELSE IF Len(decoded) = 0
             THEN [content |-> <<>>, err |-> "decoded content is empty"]
             ELSE [content |-> decoded, err |-> ""]

Contents == UNION {[1..n -> ContentBytes] : n \in 0..MaxContentLen}

BInit ==
    /\ content \in Contents
    /\ decodeRet = <<>>
    /\ decodePc = "call"
    /\ XIdle /\ OIdle /\ RIdle /\ LIdle /\ DIdle /\ MIdle /\ AIdle

Decode ==
    /\ decodePc = "call"
    /\ decodeRet' = DecodeSubscriptionContent(content)
    /\ decodePc' = "done"
    /\ UNCHANGED <<content, xvars, ovars, rvars, lvars, dvars, mvars, avars>>

BNext == Decode

SpecDecode == BInit /\ [][BNext]_vars

----------------------------------------------------------------------------
(* Claims about extractAllSelectableBlocks (checked under SpecExtract) *)

NoSpace(s) == SelectSeq(s, LAMBDA c : ~IsSpace(c))

\* The openers of the selectable-rule blocks of s, stated without the matcher:
\* a comment opener, white space only up to the marker, a closer after it.
Occurrences(s) ==
    {i \in 1..Len(s) :
        /\ s[i] = "/**"
        /\ \E j \in (i + 1)..Len(s) :
              /\ IsSelectableMarker(s[j])
              /\ \A h \in (i + 1)..(j - 1) : IsSpace(s[h])
              /\ \E k \in (j + 1)..Len(s) : s[k] = "*/"}

\* The text between the marker of the block opened at i and its closer.
OccurrenceInner(s, i) ==
    LET j == CHOOSE j \in (i + 1)..Len(s) :
                 IsSelectableMarker(s[j]) /\ \A h \in (i + 1)..(j - 1) : IsSpace(s[h])
        k == CHOOSE k \in (j + 1)..Len(s) :
                 s[k] = "*/" /\ \A h \in (j + 1)..(k - 1) : s[h] # "*/"
    IN  SubSeq(s, j + 1, k - 1)

RECURSIVE Ascending(_)
Ascending(S) ==
    IF S = {} THEN <<>> ELSE <<Min(S)>> \o Ascending(S \ {Min(S)})

C6_NoBlockUnchanged ==
    (xpc = "done" /\ Occurrences(xSrc) = {})
        => (xCleaned = xSrc /\ xBlocks = <<>>)

\* A document without a block that the clean-ups would have changed.
C6_Witness ==
    /\ xpc = "done"
    /\ Occurrences(xSrc) = {}
    /\ CleanupSeparators(xSrc) # xSrc
    /\ xCleaned = xSrc

\* C7: one inner text per block occurrence, in document order, and no block
\* occurrence is left in the returned document.
C7_OneInnerPerOccurrence ==
    xpc = "done" =>
        LET occ == Ascending(Occurrences(xSrc))
        IN  /\ Len(xBlocks) = Len(occ)
            /\ \A k \in 1..Len(occ) :
                  xBlocks[k] = TrimSpace(OccurrenceInner(xSrc, occ[k]))
            /\ Occurrences(xCleaned) = {}

\* Two blocks with different inner texts were extracted, in order.
C7_Witness ==
    /\ xpc = "done"
    /\ Len(xBlocks) = 2
    /\ xBlocks[1] = <<"r2">>
    /\ xBlocks[2] = <<"r1", ",">>

----------------------------------------------------------------------------
(* Claims about orderTemplateSections (checked under SpecOrder) *)

\* The canonical names, in the order the specification gives them.
CanonicalRank(key) ==
    CASE key = "log" -> 1 [] key = "dns" -> 2 [] key = "inbounds" -> 3
      [] key = "outbounds" -> 4 [] key = "route" -> 5 [] key = "experimental" -> 6
      [] key = "rule_set" -> 7 [] key = "rules" -> 8 [] OTHER -> 0

IsCanonical(key) == CanonicalRank(key) > 0

\* The names of the top-level members of a template, in document order
\* (each name once, at its first appearance).
RECURSIVE Dedup(_)
Dedup(q) ==
    IF Len(q) = 0 THEN <<>>
    ELSE LET front == SubSeq(q, 1, Len(q) - 1)
         IN  IF InSeq(q[Len(q)], front) THEN Dedup(front)
             ELSE Append(Dedup(front), q[Len(q)])

FirstAppearances(doc) ==
    LET lits == Dedup(SelectSeq(doc, LAMBDA c : c \in SectionKeyLits))
    IN  [i \in 1..Len(lits) |-> StringWord(lits[i])]

\* C1: the returned sectionOrder is a permutation of the keys of sections:
\* every key once, and no other name.
C1_OrderIsPermutation ==
    opc = "done" =>
        /\ Len(oOrder) = Cardinality(DOMAIN oSections)
        /\ \A key \in DOMAIN oSections : InSeq(key, oOrder)
        /\ \A i \in 1..Len(oOrder) : oOrder[i] \in DOMAIN oSections
        /\ \A i, j \in 1..Len(oOrder) : oOrder[i] = oOrder[j] => i = j

\* A template with a canonical and two other sections, one of them given
\* twice, was ordered.
C1_Witness ==
    /\ opc = "done"
    /\ Len(oOrder) = 2
    /\ Len(FirstAppearances(oDoc)) = 2
    /\ Len(SelectSeq(oDoc, LAMBDA c : c \in SectionKeyLits)) = 3
    /\ \E i \in 1..2 : IsCanonical(oOrder[i])
    /\ \E i \in 1..2 : ~IsCanonical(oOrder[i])

\* C2: every canonical key precedes every other key, and the canonical keys
\* stand in the order log, dns, inbounds, outbounds, route, experimental,
\* rule_set, rules.
C2_CanonicalFirstInFixedOrder ==
    opc = "done" =>
        \A i, j \in 1..Len(oOrder) :
            (i < j /\ IsCanonical(oOrder[j]))
                => (IsCanonical(oOrder[i])
                    /\ CanonicalRank(oOrder[i]) < CanonicalRank(oOrder[j]))

\* Two canonical sections written in the opposite order, and one other
\* section written first, were ordered.
C2_Witness ==
    /\ opc = "done"
    /\ FirstAppearances(oDoc) = <<"ntp", "dns", "log">>
    /\ oOrder = <<"log", "dns", "ntp">>

\* C3: the non-canonical keys follow in the order in which they appear in
\* the document.  (The code ranges over a Go map, whose order is unspecified.)
C3_OthersInDocumentOrder ==
    opc = "done" =>
        SelectSeq(oOrder, LAMBDA key : ~IsCanonical(key))
            = SelectSeq(FirstAppearances(oDoc), LAMBDA key : ~IsCanonical(key))

----------------------------------------------------------------------------
(* Claims about parseSelectableRules (checked under SpecRules) *)

\* What the author of a block wrote, read off the block by hand: the value
\* of its @label directive and the number of records in its body.
WrittenGroupLabel(block) ==
    CASE block = RuleBlock(4) -> <<"Ads">>
      [] block = RuleBlock(5) -> <<"Block", " ", "Ads">>
      [] OTHER -> <<>>

WrittenRecords(block) ==
    CASE block \in {RuleBlock(3), RuleBlock(5), RuleBlock(15)} -> 2
      [] block = RuleBlock(10) -> 0
      [] OTHER -> 1

RECURSIVE RecordsBefore(_, _)
RecordsBefore(blocks, b) ==
    IF b <= 1 THEN 0
    ELSE RecordsBefore(blocks, b - 1) + WrittenRecords(blocks[b - 1])

\* The positions, in the flattened list, of the variants of block b.
PositionsOf(blocks, b) ==
    (RecordsBefore(blocks, b) + 1)..(RecordsBefore(blocks, b) + WrittenRecords(blocks[b]))

\* "Rule n", written out.
RuleN(n) == <<"Rule", " ", <<"1", "2", "3", "4", "5", "6", "7", "8", "9">>[n]>>

HasOwnLabel(rule) ==
    /\ "label" \in DOMAIN rule.Raw
    /\ rule.Raw["label"].t = "string"
    /\ rule.Raw["label"].word # ""

Succeeded == rpc = "done" /\ rErr = ""

\* C8: a synthesized label is "Rule n" with n the 1-based position of the
\* variant in the flattened list of the whole document; the count is not
\* reset at a block boundary.
C8_SynthesizedLabelIsGlobalPosition ==
    Succeeded =>
        \A b \in 1..Len(rBlocks) : \A i \in PositionsOf(rBlocks, b) :
            /\ i <= Len(rRules)
            /\ (WrittenGroupLabel(rBlocks[b]) = <<>> /\ ~HasOwnLabel(rRules[i]))
                  => rRules[i].Label = RuleN(i)
            /\ rRules[i].Label[1] = "Rule" => rRules[i].Label = RuleN(i)

\* A labelled record in one block, an unlabelled one in the next: "Rule 2".
C8_Witness ==
    /\ Succeeded
    /\ rBlocks = <<RuleBlock(1), RuleBlock(2)>>
    /\ rRules[1].Label = <<"Auto">>
    /\ rRules[2].Label = <<"Rule", " ", "2">>

\* C9: a non-empty group-level @label is the label of every variant of its
\* block, also of a record with a non-empty label field of its own; the
\* variants of the other blocks do not get it.
C9_GroupLabelOverrides ==
    Succeeded =>
        \A b \in 1..Len(rBlocks) : \A i \in PositionsOf(rBlocks, b) :
            IF WrittenGroupLabel(rBlocks[b]) # <<>>
            THEN rRules[i].Label = WrittenGroupLabel(rBlocks[b])
            ELSE rRules[i].Label \notin {<<"Ads">>, <<"Block", " ", "Ads">>}

\* A block with @label Ads whose record has the label "Own", after a block
\* without a directive.
C9_Witness ==
    /\ Succeeded
    /\ rBlocks = <<RuleBlock(1), RuleBlock(4)>>
    /\ rRules[1].Label = <<"Auto">>
    /\ HasOwnLabel(rRules[2])
    /\ rRules[2].Label = <<"Ads">>

\* C10: every variant of a successfully returned list has a non-empty label.
C10_LabelNeverEmpty ==
    Succeeded => \A i \in 1..Len(rRules) : rRules[i].Label # <<>>

\* A directive without a value over a record whose label is the empty
\* string, and a record whose label is a number.
C10_Witness ==
    /\ Succeeded
    /\ rBlocks = <<RuleBlock(6), RuleBlock(7)>>
    /\ Len(rRules) = 2
    /\ rRules[1].Label # <<>>
    /\ rRules[2].Label # <<>>

----------------------------------------------------------------------------
(* Claims about loadTemplateData (checked under SpecLoad) *)

\* C4: two calls of loadTemplateData on the same template text return the
\* same result, in particular the same SectionOrder and the same list of
\* rules.  (The SectionOrder of two calls can differ: see C3.)
C4_SameTextSameResult ==
    (lpc[1] = "done" /\ lpc[2] = "done") => lres[1].data = lres[2].data

----------------------------------------------------------------------------
(* Further claims about parseSelectableRules (checked under SpecRules) *)

\* What the author of a block wrote, read off the block by hand: for each
\* record of its body, whether it has an outbound field and the field's
\* value when that is a string.
Outbound(has, value) == [has |-> has, value |-> value]

WrittenOutbounds(block) ==
    CASE block = RuleBlock(2) -> <<Outbound(TRUE, "proxy-a")>>
      [] block \in {RuleBlock(3), RuleBlock(15)} ->
             <<Outbound(FALSE, ""), Outbound(TRUE, "proxy-a")>>
      [] block = RuleBlock(4) -> <<Outbound(TRUE, "direct")>>
      [] block = RuleBlock(5) -> <<Outbound(FALSE, ""), Outbound(TRUE, "direct")>>
      [] block = RuleBlock(11) -> <<Outbound(TRUE, "")>>
      [] block = RuleBlock(10) -> <<>>
      [] OTHER -> <<Outbound(FALSE, "")>>

\* C11: HasOutbound is true exactly when the record has an outbound field;
\* DefaultOutbound is the field's value when it is a string and empty
\* otherwise, so a non-empty DefaultOutbound implies HasOutbound.
C11_OutboundAttributes ==
    Succeeded =>
        /\ \A b \in 1..Len(rBlocks) : \A k \in 1..Len(WrittenOutbounds(rBlocks[b])) :
              LET rule == rRules[RecordsBefore(rBlocks, b) + k]
                  w    == WrittenOutbounds(rBlocks[b])[k]
              IN  rule.HasOutbound = w.has /\ rule.DefaultOutbound = w.value
        /\ \A i \in 1..Len(rRules) :
              rRules[i].DefaultOutbound # "" => rRules[i].HasOutbound

\* A record whose outbound is a number, then one whose outbound is a string.
C11_Witness ==
    /\ Succeeded
    /\ rBlocks = <<RuleBlock(11), RuleBlock(2)>>
    /\ rRules[1].HasOutbound /\ rRules[1].DefaultOutbound = ""
    /\ rRules[2].HasOutbound /\ rRules[2].DefaultOutbound = "proxy-a"

----------------------------------------------------------------------------
(* Further claims about loadTemplateData (checked under SpecLoad) *)

\* sub occurs in s as a contiguous piece.
ContainsSeq(s, sub) ==
    \E i \in 1..(Len(s) - Len(sub) + 1) : SubSeq(s, i, i + Len(sub) - 1) = sub

\* The call has returned, with a result or with an error.
Finished(c) == lpc[c] \in {"done", "error"}

\* The template holds the selectable-rule block whose body is malformed.
HasMalformedBlock == ContainsSeq(tplFile, SelectableBlock(9))

\* C12: failure is all-or-nothing.  A call that returns an error returns no
\* TemplateData (and so no list of variants); a malformed block anywhere in
\* the template, or a reduced template that is not valid JSON, makes the
\* call return an error, also after blocks that parsed.
C12_FailureIsAllOrNothing ==
    \A c \in Calls : Finished(c) =>
        /\ lres[c].returned
        /\ lres[c].err # "" => lres[c].data = <<>>
        /\ (HasMalformedBlock \/ ~jsonValid(lv[c].jsonBytes))
              => (lres[c].err # "" /\ lres[c].data = <<>>)

\* Two blocks that parse into two rules, then the malformed block: the call
\* failed in parseSelectableRules, after the template itself was accepted.
C12_Witness ==
    \E c \in Calls :
        /\ lpc[c] = "error"
        /\ jsonValid(lv[c].jsonBytes)
        /\ Len(lv[c].selectableBlocks) = 3
        /\ LET first == parseSelectableRules(SubSeq(lv[c].selectableBlocks, 1, 2))
           IN  first.err = "" /\ Len(first.rules) = 2
        /\ lres[c].err # "" /\ lres[c].data = <<>>

----------------------------------------------------------------------------
(* Claims about the errors of parseSelectableRules (checked under SpecRules) *)

\* The blocks of the model whose body is empty once the directive lines,
\* the white space and the trailing commas are taken away, and the blocks
\* that fail for any reason, read off the blocks by hand.
EmptyBodyBlocks == {RuleBlock(8), RuleBlock(10), RuleBlock(13)}

FailingBlocks == EmptyBodyBlocks \cup {RuleBlock(9), RuleBlock(12)}

EmptyBlockErrors == {"no JSON content", "no JSON content after trimming"}

\* C13: the first failing block being one with an empty body, the call
\* fails with an empty-block error that names the 1-based index of that
\* block; a block whose text is entirely empty or blank is such a block.
\* (The code skips a blank block, lines 185-188, and reports nothing.)
C13_EmptyBlockFailsWithIndex ==
    rpc = "done" =>
        \A b \in 1..Len(rBlocks) :
            (/\ rBlocks[b] \in EmptyBodyBlocks
             /\ \A a \in 1..(b - 1) : rBlocks[a] \notin FailingBlocks)
                => (rErr \in EmptyBlockErrors /\ rErrBlock = b)

----------------------------------------------------------------------------
(* Claims about the metadata block (checked under SpecLoad) *)

\* The template holds two metadata blocks: one before the object, one after.
HasTwoConfigBlocks ==
    /\ Len(tplFile) >= Len(ParcerConfigBlock)
    /\ SubSeq(tplFile, 1, Len(ParcerConfigBlock)) = ParcerConfigBlock
    /\ ContainsSeq(tplFile, ConfigAfter(3))

\* C14: extractCommentBlock consults and removes the first metadata block
\* only: with two blocks in the document the inner text is that of the first
\* and the returned document is the document without the first block (which
\* ends at its closer; the line break after it stays), the second block still
\* in it, untouched.  (The code removes every block: ReplaceAllString, line
\* 125.)
C14_OnlyFirstBlockRemoved ==
    \A c \in Calls : (lpc[c] = "extractBlocks" /\ HasTwoConfigBlocks) =>
        /\ lv[c].parserConfig = <<"cfg">>
        /\ lv[c].cleaned = SubSeq(tplFile, Len(ParcerConfigBlock), Len(tplFile))

\* The template holds no metadata block, and no comment block at all.
NoMetadataBlock == \A i \in 1..Len(tplFile) : tplFile[i] # "@ParcerConfig"

NoCommentBlock == \A i \in 1..Len(tplFile) : tplFile[i] # "/**"

\* C15: with no metadata block in the document, extractCommentBlock returns
\* an empty inner text and the document unchanged, and the load goes on: it
\* returns a TemplateData with an empty ParserConfig (always, when nothing
\* else is in the way: the file is read and holds no other block), while
\* ExtractParcerConfig, once it has read the file, fails with the
\* missing-block error and returns no configuration.
C15_MissingMetadataBlock ==
    NoMetadataBlock =>
        /\ \A c \in Calls :
              /\ lpc[c] = "extractBlocks"
                    => (lv[c].parserConfig = <<>> /\ lv[c].cleaned = tplFile)
              /\ lpc[c] = "done"
                    => (lres[c].err = "" /\ lres[c].data.ParserConfig = <<>>)
              /\ (lpc[c] = "error" /\ NoCommentBlock) => lres[c].err = "read"
        /\ spc = "done" =>
              /\ sres.err \in {"@ParcerConfig block not found", "failed to read config.json"}
              /\ sres.cfg = <<>>

\* A template without a metadata block: one call loaded it, rules included,
\* and the strict entry point reported the missing block.
C15_Witness ==
    /\ NoMetadataBlock
    /\ \E c \in Calls :
          /\ lpc[c] = "done"
          /\ lres[c].data.ParserConfig = <<>>
          /\ Len(lres[c].data.SelectableRules) > 0
    /\ spc = "done"
    /\ sres.err = "@ParcerConfig block not found"

----------------------------------------------------------------------------
(* Claims about extractDefaultFinal (checked under SpecLoad) *)

\* What the template says, read off its text by hand: the last member named
\* route decides (a later member of an object replaces an earlier one), and
\* only the member route: {final: "auto"} has a string-typed final.
WrittenFinal ==
    LET p == LastIn({i \in 1..Len(tplFile) : tplFile[i] = "\"route\""}, 0)
    IN  IF /\ p > 0
           /\ p + Len(Member(4)) - 1 <= Len(tplFile)
           /\ SubSeq(tplFile, p, p + Len(Member(4)) - 1) = Member(4)
        THEN "auto" ELSE ""

\* The statements of loadTemplateData after line 85.
AfterDefaultFinal(c) == lpc[c] \in {"rules", "assemble", "done"}

\* C16: extractDefaultFinal returns the value of final when route is there,
\* is an object and has a string-typed final, and "" in every other case;
\* the statement that calls it never ends the load with an error.
C16_DefaultFinalNeverFails ==
    /\ [](\A c \in Calls :
            /\ AfterDefaultFinal(c) => lv[c].defaultFinal = WrittenFinal
            /\ lpc[c] = "done" => lres[c].data.DefaultFinal = WrittenFinal)
    /\ [][\A c \in Calls : lpc[c] = "defaultFinal" =>
              (lpc'[c] \in {"defaultFinal", "rules"} /\ lres'[c] = lres[c])]_vars

\* A route whose final is a number, replaced by a later route whose final is
\* "auto": the load returned "auto".
C16_Witness ==
    /\ ContainsSeq(tplFile, Member(10))
    /\ WrittenFinal = "auto"
    /\ \E c \in Calls : lpc[c] = "done" /\ lres[c].data.DefaultFinal = "auto"

----------------------------------------------------------------------------
(* Claims about the calls of loadTemplateData side by side (SpecLoad) *)

\* What one call of loadTemplateData, run alone on the text raw, can return:
\* the read error, or the outcome of lines 52-108, with one result for each
\* order in which the map may be ranged over.
AloneResults(raw) ==
    LET meta      == extractCommentBlock(raw, "@ParcerConfig")
        extracted == extractAllSelectableBlocks(meta.cleaned)
        jsonBytes == jsoncToJSON(extracted.cleaned)
        decoded   == UnmarshalRawMap(jsonBytes)
        parsed    == parseSelectableRules(extracted.blocks)
        config    == TrimSpace(meta.inner)
        final     == extractDefaultFinal(decoded.m)
    IN  {ReturnError("read")} \cup
        (IF ~jsonValid(jsonBytes) THEN {ReturnError("invalid JSON")}
         ELSE IF ~decoded.ok THEN {ReturnError("failed to parse")}
         ELSE IF parsed.err # "" THEN {ReturnError(parsed.err)}
         ELSE {[returned |-> TRUE, err |-> "",
                data |-> [ParserConfig    |-> config,
                          Sections        |-> decoded.m,
                          SectionOrder    |-> orderTemplateSections(decoded.m, range),
                          SelectableRules |-> parsed.rules,
                          DefaultFinal    |-> final]] :
                   range \in MapRanges(decoded.m)})

\* C17: a call keeps no state that another call can observe.  A step of one
\* call changes nothing of a call that does not move, and however the calls
\* are interleaved each returns a result it can return when run alone.
C17_CallsAreIndependent ==
    /\ []((\E c \in Calls : Finished(c)) =>
             LET alone == AloneResults(tplFile)
             IN  \A c \in Calls : Finished(c) => lres[c] \in alone)
    /\ [][\A c \in Calls : lpc'[c] = lpc[c] =>
              (lv'[c] = lv[c] /\ lres'[c] = lres[c])]_vars

\* The two calls under way at the same time: one has parsed its rules, with
\* a synthesized label among them, the other is about to parse its own.
C17_Witness ==
    /\ lpc[1] = "assemble" /\ lpc[2] = "rules"
    /\ \E i \in 1..Len(lv[1].selectableRules) :
          lv[1].selectableRules[i].Label[1] = "Rule"


----------------------------------------------------------------------------
(* Claims about the Core Dashboard tab (checked under SpecDashboard) *)

Widgets(t) ==
    <<t.statusLabel, t.startButton, t.stopButton, t.downloadButton,
      t.downloadProgress, t.wintunDownloadButton, t.wintunDownloadProgress>>

UIThreadStep ==
    \/ events'.download # events.download
    \/ events'.wintun # events.wintun
    \/ uiQueue # <<>> /\ uiQueue' = Tail(uiQueue)

\* C18: every call of GetLatestCoreVersion, DownloadCore and
\* DownloadWintunDLL is made by a spawned goroutine, never by the UI thread,
\* and a step that changes a widget of the tab is a step of the UI thread: a
\* click handler, or a function that a goroutine handed to fyne.Do.
C18_NetworkOffUIThread ==
    /\ [](\A e \in netLog : e.by = "goroutine")
    /\ [][Widgets(tab') # Widgets(tab) => UIThreadStep]_vars

C18_Witness ==
    /\ NetCall("DownloadCore", "goroutine") \in netLog
    /\ NetCall("GetLatestCoreVersion", "goroutine") \in netLog
    /\ uiQueue = <<>>
    /\ tab.downloadProgress
    /\ \E g \in BagToSet(goroutines) :
          /\ g.fn = "startDownloadWithVersion" /\ g.pc = "downloading"
          /\ g.sent > 0 /\ g.ch = <<>>


----------------------------------------------------------------------------
(* Claims about the separators left by extractAllSelectableBlocks          *)
(* (checked under SpecExtract)                                             *)

CommaRunAt(s, i) ==
    /\ s[i] = ","
    /\ SkipSpace(s, i + 1) <= Len(s)
    /\ s[SkipSpace(s, i + 1)] = ","

CommaBeforeCloseAt(s, i) == i < Len(s) /\ s[i] = "," /\ s[i + 1] = "]"

CommaAfterOpenAt(s, i) == i < Len(s) /\ s[i] = "[" /\ s[i + 1] = ","

\* C19: when at least one block was removed, the returned document has no
\* two commas separated only by white space, no comma immediately before a
\* closing bracket and no comma immediately after an opening bracket.  (The
\* code replaces the non-overlapping matches of `,\s*,` once: of a run of
\* three commas two are left, and the clean-up after '[' or before ']' then
\* removes at most one more.)
C19_SeparatorsCollapsed ==
    (xpc = "done" /\ xBlocks # <<>>) =>
        \A i \in 1..Len(xCleaned) :
            /\ ~CommaRunAt(xCleaned, i)
            /\ ~CommaBeforeCloseAt(xCleaned, i)
            /\ ~CommaAfterOpenAt(xCleaned, i)


----------------------------------------------------------------------------
(* Claims about the order of the steps of loadTemplateData (SpecLoad) *)

StepRank(pc) ==
    CASE pc = "read" -> 0
      [] pc = "extractComment" -> 1
      [] pc = "extractBlocks" -> 2
      [] pc = "validate" -> 3
      [] pc = "unmarshal" -> 4
      [] pc = "order" -> 5
      [] pc = "defaultFinal" -> 6
      [] pc = "rules" -> 7
      [] pc = "assemble" -> 8
      [] pc = "done" -> 9
      [] pc = "error" -> 10

\* The openers of the metadata blocks of s, stated without the matcher.
MetadataOccurrences(s) ==
    {i \in 1..Len(s) :
        /\ s[i] = "/**"
        /\ \E j \in (i + 1)..Len(s) :
              /\ s[j] = "@ParcerConfig"
              /\ \A h \in (i + 1)..(j - 1) : IsSpace(s[h])
              /\ \E k \in (j + 1)..Len(s) : s[k] = "*/"}

HasAnnotationBlock(s) == MetadataOccurrences(s) # {} \/ Occurrences(s) # {}

\* The inner texts of the selectable-rule blocks of the file, as captured
\* from the text itself.
CapturedBlocks(raw) ==
    extractAllSelectableBlocks(extractCommentBlock(raw, "@ParcerConfig").cleaned).blocks

\* C20: within one call the steps follow one another in the order metadata
\* extraction, block extraction, reduction and validation, section parsing
\* (a step is followed by the next one or by the error return); the text the
\* reducer is applied to is the text left by the two extractions and holds no
\* annotation block; and the variants are parsed from the captured block
\* texts, of which the reduced JSON holds nothing.
C20_StepsInSequence ==
    /\ [][\A c \in Calls : lpc'[c] # lpc[c] =>
            \/ lpc'[c] = "error"
            \/ StepRank(lpc'[c]) = StepRank(lpc[c]) + 1]_vars
    /\ [][\A c \in Calls : (lpc[c] = "validate" /\ lpc'[c] # "validate") =>
            /\ ~HasAnnotationBlock(lv[c].cleaned)
            /\ lv'[c].jsonBytes = jsoncToJSON(lv[c].cleaned)]_vars
    /\ [](\A c \in Calls : lpc[c] = "assemble" =>
            /\ lv[c].selectableRules
                   = parseSelectableRules(CapturedBlocks(lv[c].raw)).rules
            /\ \A i \in 1..Len(lv[c].jsonBytes) :
                   ~IsSelectableMarker(lv[c].jsonBytes[i]))

\* A template with a metadata block and selectable-rule blocks, loaded up to
\* the assembly of the result: the reduced text was accepted and the blocks
\* gave variants.
C20_Witness ==
    \E c \in Calls :
        /\ lpc[c] = "assemble"
        /\ MetadataOccurrences(lv[c].raw) # {}
        /\ Occurrences(lv[c].raw) # {}
        /\ lv[c].parserConfig # <<>>
        /\ Len(lv[c].selectableRules) >= 1


----------------------------------------------------------------------------
(* Claims about extractRuleMetadata (checked under SpecMetadata) *)

\* A line is a directive line, read off the line by hand: after its leading
\* white space comes @label or @description.
IsDirectiveLine(line) ==
    line \in {BlockLine(4), BlockLine(5), BlockLine(7)}

\* The lines of the block that are no directive lines, in their order.
KeptLines == SelectSeq(mLines, LAMBDA line : ~IsDirectiveLine(line))

\* C21, as stated: the reassembled body consists of the lines that are no
\* directive lines, every one of them verbatim, the blank ones included, in
\* the original order.  (The code trims the reassembled text before it
\* returns it: blank lines that come first or last once the directive lines
\* are gone, and the indentation of the first kept line, are dropped.)
C21_KeptLinesVerbatim ==
    mpc = "done" => mResult.cleaned = JoinLines(KeptLines)

\* C21, amended: the reassembled body is the text of the lines that are no
\* directive lines, in the original order, each verbatim, the blank ones
\* included, with the white space at its two ends trimmed off.
C21_KeptLinesTrimmed ==
    mpc = "done" => mResult.cleaned = TrimSpace(JoinLines(KeptLines))

\* A directive line between two kept lines, a blank line among them: the
\* body holds the blank line and not the directive.
C21_Witness ==
    /\ mpc = "done"
    /\ mLines = <<BlockLine(1), BlockLine(4), BlockLine(3), BlockLine(6)>>
    /\ mResult.cleaned = <<"{", "\n", "\n", "}">>


----------------------------------------------------------------------------
(* Claims about normalizeRuleJSON (checked under SpecRules) *)

\* The blocks whose body begins with an array bracket, with the number of
\* records their array holds, and the blank block, which is skipped; read
\* off the blocks by hand.
ArrayBlocks == {RuleBlock(3), RuleBlock(5), RuleBlock(12)}

ArrayLength(block) == IF block = RuleBlock(12) THEN 1 ELSE 2

ExpectedVariants(block) ==
    IF block = RuleBlock(10) THEN 0
    ELSE IF block \in ArrayBlocks THEN ArrayLength(block)
    ELSE 1

RECURSIVE ExpectedBefore(_, _)
ExpectedBefore(blocks, b) ==
    IF b <= 1 THEN 0
    ELSE ExpectedBefore(blocks, b - 1) + ExpectedVariants(blocks[b - 1])

\* C22: a body that begins with '[' is taken as the list it is, one variant
\* per record in array order; any other body is wrapped in a single-element
\* array and gives exactly one variant.  (The code wraps by putting the text
\* between brackets: a body of two records separated by a comma becomes a
\* two-element array and gives two variants.)
C22_BareBodyIsOneVariant ==
    Succeeded =>
        /\ Len(rRules) = ExpectedBefore(rBlocks, Len(rBlocks) + 1)
        /\ \A b \in 1..Len(rBlocks) :
              rBlocks[b] \in {RuleBlock(3), RuleBlock(5)} =>
                  LET first == ExpectedBefore(rBlocks, b) + 1
                  IN  /\ first + 1 <= Len(rRules)
                      /\ "outbound" \notin DOMAIN rRules[first].Raw
                      /\ "outbound" \in DOMAIN rRules[first + 1].Raw


----------------------------------------------------------------------------
(* Further claims about the Core Dashboard tab (SpecDashboard) *)

\* A goroutine in which DownloadCore has been called and has not yet sent
\* its last message, "done" or "error".
DownloadingCore(g) == g.fn = "startDownloadWithVersion" /\ g.pc = "downloading"

\* C23: at most one DownloadCore is running at any time.  (handleDownload
\* leaves downloadInProgress false and the button enabled while its goroutine
\* looks up the latest version; a second click during the lookup starts a
\* download, and the lookup, once back, starts another.)
C23_OneCoreDownload ==
    \A g, h \in BagToSet(goroutines) :
        (DownloadingCore(g) /\ DownloadingCore(h)) =>
            (g = h /\ CopiesIn(g, goroutines) = 1)


\* The Start and Stop buttons as the claim wants them for what the
\* controller reports.
ButtonsFollow(t, ctl) ==
    IF ~ctl.binary THEN ~t.startButton.enabled /\ ~t.stopButton.enabled
    ELSE IF ctl.running THEN ~t.startButton.enabled /\ t.stopButton.enabled
    ELSE t.startButton.enabled /\ ~t.stopButton.enabled

BothEnabled(t) == t.startButton.enabled /\ t.stopButton.enabled

\* The UI thread runs a function that calls updateRunningStatus: the one
\* UpdateCoreStatusFunc queued, or the one of a finished download, whose
\* updateBinaryStatus goes on to updateRunningStatus when the binary is there.
RunsUpdateRunningStatus ==
    /\ uiQueue # <<>> /\ uiQueue' = Tail(uiQueue)
    /\ \/ Head(uiQueue).fn = "updateRunningStatus"
       \/ /\ Head(uiQueue) = Closure("downloadProgress", "done")
          /\ controller.binary

\* C24: when the tab was created with the binary in place (updateBinaryStatus
\* then calls updateRunningStatus), and after every later updateRunningStatus,
\* both buttons are disabled if the binary is missing, only Stop is enabled if
\* the core runs, only Start if it is stopped; and once they are not both
\* enabled they never are again.
C24_StartStopExclusive ==
    /\ controller.binary => ButtonsFollow(tab, controller)
    /\ [][RunsUpdateRunningStatus => ButtonsFollow(tab', controller')]_vars
    /\ [][~BothEnabled(tab) => ~BothEnabled(tab')]_vars

\* The tab was created without the binary, both buttons enabled; then the
\* status callback ran updateRunningStatus, which disabled both.
C24_Witness ==
    /\ ~controller.binary
    /\ events.state = 1
    /\ uiQueue = <<>>
    /\ tab.statusLabel = "not found"
    /\ ~tab.startButton.enabled /\ ~tab.stopButton.enabled

\* The version checks started so far: the one of CreateCoreDashboardTab and
\* one for each turn of the auto-update loop.
ChecksStarted == 1 + events.tick

\* The checks whose lookup of the latest version has not returned yet.
ChecksRunning ==
    BagCardinality([g \in {h \in BagToSet(goroutines) :
                              h.fn = "updateVersionInfoAsync"}
                      |-> goroutines[g]])

\* The checks whose lookup has failed, the failure not yet shown.
ChecksFailedPending ==
    Cardinality({i \in 1..Len(uiQueue) :
                    /\ uiQueue[i].fn \in {"latest", "latestForButton"}
                    /\ uiQueue[i].arg = "err"})

\* C26: lastUpdateSuccess is true only after a check whose lookup of the
\* latest version succeeded: when it is true, not every check started so far
\* is still running or has just failed.  (The loop sets it two seconds after
\* starting a check, whatever the check does.)
C26_SuccessOnlyAfterLookup ==
    tab.lastUpdateSuccess =>
        ChecksRunning + ChecksFailedPending < ChecksStarted

----------------------------------------------------------------------------
(* C25: the Clash API tab while sing-box is stopped *)

\* A status change whose updateClashAPITabState has not run yet.
UpdatePending ==
    \E i \in 1..Len(appQueue) : appQueue[i] = "updateClashAPITabState"

UserSelection == \E item \in ItemSet : UserSelects(item)

----------------------------------------------------------------------------
(* C27: DecodeSubscriptionContent never returns nothing without an error *)

\* The text without its line breaks, as the decoder reads it.
WithoutNewlines(s) == SelectSeq(s, LAMBDA b : b \notin {10, 13})

\* Padded base64 in the alphabet of enc: quanta of four bytes of the
\* alphabet, the last one possibly ending in "=" or "==".
IsBase64(enc, s) ==
    LET u == WithoutNewlines(TrimSpaceBytes(s))
        n == Len(u)
    IN  /\ n % 4 = 0
        /\ \A i \in 1..n :
              \/ decodeMap(enc, u[i]) # -1
              \/ /\ u[i] = padChar
                 /\ i >= n - 1
                 /\ u[n] = padChar

DecodesToNothing(s) == WithoutNewlines(TrimSpaceBytes(s)) = <<>>

\* C27: the call returns an error or a non-empty byte sequence; an error only
\* for empty content or base64 that decodes to nothing; and content that is
\* base64 in neither alphabet is returned as it is.
C27_NeverEmptyWithoutError ==
    decodePc = "done" =>
        /\ decodeRet.err = "" => decodeRet.content # <<>>
        /\ decodeRet.err # "" => content = <<>> \/ DecodesToNothing(content)
        /\ (content # <<>> /\ ~IsBase64("url", content)
                           /\ ~IsBase64("std", content))
              => decodeRet.err = "" /\ decodeRet.content = content

\* "A-+" and a line feed: base64 in neither alphabet, returned with its
\* line feed.
C27_Witness ==
    /\ decodePc = "done"
    /\ content = <<65, 45, 43, 10>>
    /\ decodeRet = [content |-> <<65, 45, 43, 10>>, err |-> ""]

====
